---- MODULE Spec2Model ----
(***************************************************************************)
(* Model of singerbox: the ProxyBox lifecycle (proxybox.go) and the share  *)
(* link decoder it consumes (sharelink.go).                                *)
(*                                                                         *)
(* Go strings are modelled as sequences of one-character strings, so that  *)
(* splitting, scanning and formatting are computed as the code computes    *)
(* them.                                                                   *)
(***************************************************************************)
EXTENDS Integers, Sequences, FiniteSets, TLC

(***************************************************************************)
(* Strings                                                                 *)
(***************************************************************************)

\* the bytes of a Go string literal
Chars(s) == [i \in 1..Len(s) |-> SubSeq(s, i, i)]

DigitChars == <<"0", "1", "2", "3", "4", "5", "6", "7", "8", "9">>

IsDigit(c) == \E i \in 1..10 : DigitChars[i] = c

DigitVal(c) == (CHOOSE i \in 1..10 : DigitChars[i] = c) - 1

\* position of character c in table tbl, 0 if it is not in it
PosIn(tbl, c) ==
    IF \E i \in 1..Len(tbl) : tbl[i] = c
    THEN CHOOSE i \in 1..Len(tbl) : tbl[i] = c
    ELSE 0

HexChars == Chars("0123456789abcdefABCDEF")

\* the character class [0-9a-fA-F]
IsHex(c) == \E i \in 1..Len(HexChars) : HexChars[i] = c

\* the letters and digits of ASCII
AlnumChars == Chars("abcdefghijklmnopqrstuvwxyzABCDEFGHIJKLMNOPQRSTUVWXYZ0123456789")

IsAlnum(c) == \E i \in 1..Len(AlnumChars) : AlnumChars[i] = c

\* strings.HasPrefix
HasPrefix(s, p) == Len(s) >= Len(p) /\ SubSeq(s, 1, Len(p)) = p

\* strings.TrimPrefix
TrimPrefix(s, p) == IF HasPrefix(s, p) THEN SubSeq(s, Len(p) + 1, Len(s)) ELSE s

\* strings.Index: 0-based index of the first occurrence of p in s, -1 if none
Index(s, p) ==
    LET hits == {i \in 1..(Len(s) - Len(p) + 1) : SubSeq(s, i, i + Len(p) - 1) = p}
    IN  IF hits = {} THEN -1
        ELSE (CHOOSE i \in hits : \A j \in hits : i <= j) - 1

\* strings.LastIndex: 0-based index of the last occurrence of p in s, -1 if none
LastIndex(s, p) ==
    LET hits == {i \in 1..(Len(s) - Len(p) + 1) : SubSeq(s, i, i + Len(p) - 1) = p}
    IN  IF hits = {} THEN -1
        ELSE (CHOOSE i \in hits : \A j \in hits : i >= j) - 1

\* s[from:] with a 0-based byte offset
SliceFrom(s, from) == SubSeq(s, from + 1, Len(s))

\* s[:to] with a 0-based byte offset
SliceTo(s, to) == SubSeq(s, 1, to)

\* strings.Split(s, sep) for a non-empty separator: always at least one part
RECURSIVE Split(_, _)
Split(s, sep) ==
    LET i == Index(s, sep)
    IN  IF i = -1 THEN <<s>>
        ELSE <<SliceTo(s, i)>> \o Split(SliceFrom(s, i + Len(sep)), sep)

\* decimal value of a string of digits
RECURSIVE DecimalValue(_)
DecimalValue(s) ==
    IF s = <<>> THEN 0
    ELSE 10 * DecimalValue(SubSeq(s, 1, Len(s) - 1)) + DigitVal(s[Len(s)])

\* the %d verb of fmt.Sprintf for a non-negative integer
RECURSIVE FormatInt(_)
FormatInt(n) ==
    IF n < 10 THEN <<DigitChars[n + 1]>>
    ELSE FormatInt(n \div 10) \o <<DigitChars[(n % 10) + 1]>>

\* s without its leading blanks
SkipBlanks(s) ==
    SubSeq(s, Cardinality({i \in 1..Len(s) : \A j \in 1..i : s[j] \in {" ", "\t", "\r"}}) + 1,
           Len(s))

\* the longest prefix of s that is made of digits and underscores
NumberToken(s) ==
    SubSeq(s, 1, Cardinality({i \in 1..Len(s) : \A j \in 1..i : IsDigit(s[j]) \/ s[j] = "_"}))

\* strconv.ParseInt(tok, 10, 64) of a token that needs a digit at its start
\* and holds no underscore, negated when the sign was '-'
ScannedValue(tok, negative) ==
    IF tok # <<>> /\ \A j \in 1..Len(tok) : IsDigit(tok[j])
    THEN [ok |-> TRUE, val |-> IF negative THEN 0 - DecimalValue(tok) ELSE DecimalValue(tok)]
    ELSE [ok |-> FALSE, val |-> 0]

\* the optional sign and the number token of a text without leading blanks
ScanSigned(rest) ==
    IF rest # <<>> /\ rest[1] \in {"+", "-"}
    THEN ScannedValue(NumberToken(Tail(rest)), rest[1] = "-")
    ELSE ScannedValue(NumberToken(rest), FALSE)

\* fmt.Sscanf(s, "%d", &port): leading blanks are skipped, an optional sign
\* is accepted, then the longest run of digits and underscores is the token;
\* what follows the token is left unread.  The token must hold a digit at
\* its start and strconv.ParseInt(token, 10, 64) rejects underscores.
SscanfInt(s) == ScanSigned(SkipBlanks(s))

(***************************************************************************)
(* Listen address and routing configuration                                *)
(***************************************************************************)

DefaultListenAddr == <<"1", "2", "7", ".", "0", ".", "0", ".", "1", ":", "1", "0", "8", "0">>

Loopback == <<127, 0, 0, 1>>

MaxPort == 65535

\* one field of a dotted IPv4 literal as netip.ParseAddr accepts it: one to
\* three digits, no leading zero unless the field is "0", value at most 255
IsIPv4Field(f) ==
    /\ Len(f) \in 1..3
    /\ \A j \in 1..Len(f) : IsDigit(f[j])
    /\ (Len(f) > 1 => f[1] # "0")
    /\ DecimalValue(f) <= 255

\* netip.ParseAddr on a string that holds no ':' and no '%': it parses as
\* IPv4 when it holds a '.', and is an error otherwise.
ParseAddr(host) ==
    LET fields == Split(host, <<".">>)
    IN  IF /\ Len(fields) = 4
           /\ \A i \in 1..4 : IsIPv4Field(fields[i])
        THEN [ok |-> TRUE, addr |-> [i \in 1..4 |-> DecimalValue(fields[i])]]
        ELSE [ok |-> FALSE, addr |-> Loopback]

\* netip.Addr.String for an IPv4 address
AddrString(a) ==
    FormatInt(a[1]) \o <<".">> \o FormatInt(a[2]) \o <<".">> \o
    FormatInt(a[3]) \o <<".">> \o FormatInt(a[4])

\* C13 mutant: the upper end of the port range is excluded
ScannedPortOrDefaultExclusive(sc, defaultPort) ==
    IF sc.ok /\ sc.val >= 1 /\ sc.val < MaxPort THEN sc.val ELSE defaultPort

\* getPortOrDefault: the scanned port if Sscanf read one within 1..65535
ScannedPortOrDefault(sc, defaultPort) ==
    IF sc.ok /\ sc.val >= 1 /\ sc.val <= MaxPort THEN sc.val ELSE defaultPort

\* getPortOrDefault: the port of the last part of strings.Split(hostPort, ":")
LastPartPortOrDefault(parts, defaultPort) ==
    IF Len(parts) < 2 THEN defaultPort
    ELSE ScannedPortOrDefault(SscanfInt(parts[Len(parts)]), defaultPort)

getPortOrDefault(defaultPort, hostPort) ==
    IF HasPrefix(hostPort, <<"[">>)
    THEN IF LastIndex(hostPort, <<"]", ":">>) # -1
         THEN ScannedPortOrDefault(
                  SscanfInt(SliceFrom(hostPort, LastIndex(hostPort, <<"]", ":">>) + 2)),
                  defaultPort)
         ELSE defaultPort
    ELSE LastPartPortOrDefault(Split(hostPort, <<":">>), defaultPort)

\* C11 mutant: the fixed direct outbound is listed before the given outbound
createConfigDirectFirst(cfg) ==
    LET host     == Split(cfg.ListenAddr, <<":">>)[1]
        parsed   == ParseAddr(host)
        listenIP == IF parsed.ok THEN parsed.addr ELSE Loopback
    IN  [Log       |-> [Level |-> cfg.LogLevel, Output |-> "stderr"],
         Inbounds  |-> <<[Type       |-> "mixed",
                          Tag        |-> "mixed-in",
                          Listen     |-> listenIP,
                          ListenPort |-> getPortOrDefault(1080, cfg.ListenAddr) % 65536]>>,
         Outbounds |-> <<[Type |-> "direct", Tag |-> "direct"],
                         cfg.Outbound,
                         [Type |-> "block", Tag |-> "block"]>>,
         Route     |-> [Rules |-> <<[Type     |-> "default",
                                     Action   |-> "route",
                                     Outbound |-> "direct"]>>,
                        AutoDetectInterface |-> TRUE]]

createConfig(cfg) ==
    LET host     == Split(cfg.ListenAddr, <<":">>)[1]
        parsed   == ParseAddr(host)
        listenIP == IF parsed.ok THEN parsed.addr ELSE Loopback
    IN  [Log       |-> [Level |-> cfg.LogLevel, Output |-> "stderr"],
         Inbounds  |-> <<[Type       |-> "mixed",
                          Tag        |-> "mixed-in",
                          Listen     |-> listenIP,
                          ListenPort |-> getPortOrDefault(1080, cfg.ListenAddr) % 65536]>>,
         Outbounds |-> <<cfg.Outbound,
                         [Type |-> "direct", Tag |-> "direct"],
                         [Type |-> "block", Tag |-> "block"]>>,
         Route     |-> [Rules |-> <<[Type     |-> "default",
                                     Action   |-> "route",
                                     Outbound |-> cfg.Outbound.Tag]>>,
                        AutoDetectInterface |-> TRUE]]

\* the defaults NewProxyBox fills in before it assembles the configuration
WithDefaults(cfg) ==
    [Outbound   |-> cfg.Outbound,
     ListenAddr |-> IF cfg.ListenAddr = <<>> THEN DefaultListenAddr ELSE cfg.ListenAddr,
     LogLevel   |-> IF cfg.LogLevel = "" THEN "panic" ELSE cfg.LogLevel]

\* ProxyBox.ListenAddr on a stored configuration
ListenAddrOf(config) ==
    LET mixed == {i \in 1..Len(config.Inbounds) : config.Inbounds[i].Type = "mixed"}
    IN  IF mixed = {} THEN <<>>
        ELSE LET first == CHOOSE i \in mixed : \A j \in mixed : i <= j
                 opts  == config.Inbounds[first]
             IN  AddrString(opts.Listen) \o <<":">> \o FormatInt(opts.ListenPort)

(***************************************************************************)
(* Share links: URLs, SOCKS and HTTP links                                  *)
(***************************************************************************)

MaxShareLinkLength == 65536

IsSpace(c) == c \in {" ", "\t", "\n", "\r"}

\* strings.TrimSpace
TrimSpace(s) ==
    LET lead  == {i \in 1..Len(s) : \A j \in 1..i : IsSpace(s[j])}
        trail == {i \in 1..Len(s) : \A j \in i..Len(s) : IsSpace(s[j])}
        from  == Cardinality(lead) + 1
        to    == Len(s) - Cardinality(trail)
    IN  IF from > to THEN <<>> ELSE SubSeq(s, from, to)

NoOutbound == [Type |-> "", Tag |-> ""]

\* C24 mutant: the outbound returned with an error has its tag set
FailureWithTag(msg) ==
    [err |-> msg, detail |-> <<>>, out |-> [NoOutbound EXCEPT !.Tag = "proxy"]]

\* a returned error: its message, the text the message names, and the
\* zero option.Outbound returned with it
Failure(msg) == [err |-> msg, detail |-> <<>>, out |-> NoOutbound]

Success(outbound) == [err |-> "nil", detail |-> <<>>, out |-> outbound]

\* the port suffix net/url accepts after a host: empty, or ':' and digits
ValidOptionalPort(p) ==
    \/ p = <<>>
    \/ /\ p[1] = ":"
       /\ \A j \in 2..Len(p) : IsDigit(p[j])

\* the part of s before the first occurrence of sep, all of s if none
Before(s, sep) == IF Index(s, sep) = -1 THEN s ELSE SliceTo(s, Index(s, sep))

\* the authority of a link scheme://authority[/path][?query][#fragment]
Authority(raw) ==
    Before(Before(SliceFrom(Before(raw, <<"#">>),
                            Index(Before(raw, <<"#">>), <<":", "/", "/">>) + 3),
                  <<"?">>),
           <<"/">>)

\* the host[:port] of an authority: what follows its last '@'
AuthorityHost(auth) ==
    IF LastIndex(auth, <<"@">>) = -1 THEN auth
    ELSE SliceFrom(auth, LastIndex(auth, <<"@">>) + 1)

\* the userinfo of an authority: what precedes its last '@'
AuthorityUser(auth) ==
    IF LastIndex(auth, <<"@">>) = -1 THEN <<>>
    ELSE SliceTo(auth, LastIndex(auth, <<"@">>))

\* the punctuation net/url leaves unescaped in a host
HostPunctuation == Chars("-_.~!$&'()*+,;=:[]<>\"")

\* the punctuation net/url accepts in a userinfo
UserinfoPunctuation == Chars("-._:~!$&'()*+,;=%@")

\* net/url's parseHost: what follows the closing ']' of a bracketed host,
\* or the last ':' of any other host, must be a valid optional port
ValidHost(host) ==
    /\ IF HasPrefix(host, <<"[">>)
       THEN /\ LastIndex(host, <<"]">>) # -1
            /\ ValidOptionalPort(SliceFrom(host, LastIndex(host, <<"]">>) + 1))
       ELSE \/ LastIndex(host, <<":">>) = -1
            \/ ValidOptionalPort(SliceFrom(host, LastIndex(host, <<":">>)))
    /\ \A j \in 1..Len(host) :
          IsAlnum(host[j]) \/ PosIn(HostPunctuation, host[j]) # 0

\* net/url's validUserinfo: the characters a userinfo may hold
ValidUserinfo(user) ==
    \A j \in 1..Len(user) :
        IsAlnum(user[j]) \/ PosIn(UserinfoPunctuation, user[j]) # 0

\* the raw query of a link: what follows the first '?' before the fragment
RawQuery(raw) ==
    IF Index(Before(raw, <<"#">>), <<"?">>) = -1 THEN <<>>
    ELSE SliceFrom(Before(raw, <<"#">>), Index(Before(raw, <<"#">>), <<"?">>) + 1)

\* the fragment of a link: what follows the first '#'
Fragment(raw) ==
    IF Index(raw, <<"#">>) = -1 THEN <<>>
    ELSE SliceFrom(raw, Index(raw, <<"#">>) + 1)

\* what follows the first occurrence of sep in s, empty if there is none
After(s, sep) ==
    IF Index(s, sep) = -1 THEN <<>> ELSE SliceFrom(s, Index(s, sep) + Len(sep))

\* url.QueryUnescape of a value without percent-escapes: '+' is a space
PlusToSpace(s) == [i \in 1..Len(s) |-> IF s[i] = "+" THEN " " ELSE s[i]]

\* URL.Query().Get(key): the value of the first key=value pair for key;
\* pairs are separated by '&', a pair that holds a ';' is dropped
QueryGet(query, key) ==
    LET pairs == Split(query, <<"&">>)
        hits  == {i \in 1..Len(pairs) :
                     /\ pairs[i] # <<>>
                     /\ Index(pairs[i], <<";">>) = -1
                     /\ PlusToSpace(Before(pairs[i], <<"=">>)) = key}
    IN  IF hits = {} THEN <<>>
        ELSE PlusToSpace(After(pairs[CHOOSE i \in hits : \A j \in hits : i <= j], <<"=">>))

\* net/url's Parse for a link of the form scheme://authority with an
\* optional /path, ?query and #fragment, without percent-escapes and
\* without control characters
URLParse(raw) ==
    [ok       |-> /\ ValidHost(AuthorityHost(Authority(raw)))
                  /\ ValidUserinfo(AuthorityUser(Authority(raw))),
     RawQuery |-> RawQuery(raw),
     Fragment |-> Fragment(raw),
     Scheme   |-> SliceTo(raw, Index(raw, <<":", "/", "/">>)),
     Host     |-> AuthorityHost(Authority(raw)),
     HasUser  |-> LastIndex(Authority(raw), <<"@">>) # -1,
     Username |-> Before(AuthorityUser(Authority(raw)), <<":">>),
     Password |-> IF Index(AuthorityUser(Authority(raw)), <<":">>) = -1 THEN <<>>
                  ELSE SliceFrom(AuthorityUser(Authority(raw)),
                                 Index(AuthorityUser(Authority(raw)), <<":">>) + 1)]

\* URL.Hostname: Host without a valid port suffix and without brackets
Hostname(host) ==
    LET lastCol == LastIndex(host, <<":">>)
        bare    == IF lastCol # -1 /\ ValidOptionalPort(SliceFrom(host, lastCol))
                   THEN SliceTo(host, lastCol)
                   ELSE host
    IN  IF HasPrefix(bare, <<"[">>) /\ Len(bare) >= 2 /\ bare[Len(bare)] = "]"
        THEN SubSeq(bare, 2, Len(bare) - 1)
        ELSE bare

\* getPortWithDefault: the scanned port if Sscanf read one within 1..65535
ScannedPortWithDefault(sc, defaultPort) ==
    IF sc.ok /\ sc.val >= 1 /\ sc.val <= MaxPort THEN sc.val ELSE defaultPort

\* getPortWithDefault: the port of the last part of strings.Split(hostPort, ":")
LastPartPortWithDefault(parts, defaultPort) ==
    IF Len(parts) < 2 THEN defaultPort
    ELSE ScannedPortWithDefault(SscanfInt(parts[Len(parts)]), defaultPort)

getPortWithDefault(hostPort, defaultPort) ==
    IF HasPrefix(hostPort, <<"[">>)
    THEN IF LastIndex(hostPort, <<"]", ":">>) # -1
         THEN ScannedPortWithDefault(
                  SscanfInt(SliceFrom(hostPort, LastIndex(hostPort, <<"]", ":">>) + 2)),
                  defaultPort)
         ELSE defaultPort
    ELSE LastPartPortWithDefault(Split(hostPort, <<":">>), defaultPort)

SocksPrefix5 == <<"s", "o", "c", "k", "s", "5", ":", "/", "/">>

SocksPrefix == <<"s", "o", "c", "k", "s", ":", "/", "/">>

HTTPPrefix == <<"h", "t", "t", "p", ":", "/", "/">>

HTTPSPrefix == <<"h", "t", "t", "p", "s", ":", "/", "/">>

\* URL.User.Username() and the password of URL.User.Password(): empty when
\* the link holds no userinfo
Username(u) == IF u.HasUser THEN u.Username ELSE <<>>

Password(u) == IF u.HasUser THEN u.Password ELSE <<>>

\* ParseSOCKS, once url.Parse has returned u
SOCKSOutbound(u) ==
    IF ~u.ok THEN Failure("url parse error")
    ELSE IF Hostname(u.Host) = <<>> THEN Failure("missing server in SOCKS link")
    ELSE Success([Type       |-> "socks",
                  Tag        |-> "proxy",
                  Server     |-> Hostname(u.Host),
                  ServerPort |-> getPortWithDefault(u.Host, 1080) % 65536,
                  Version    |-> "5",
                  Username   |-> Username(u),
                  Password   |-> Password(u)])

ParseSOCKS(link) ==
    SOCKSOutbound(URLParse(SocksPrefix5 \o TrimPrefix(TrimPrefix(link, SocksPrefix5), SocksPrefix)))

NoUTLS == [Enabled |-> FALSE, Fingerprint |-> <<>>]

NoReality == [Enabled |-> FALSE, PublicKey |-> <<>>, ShortID |-> <<>>]

\* a nil *option.OutboundTLSOptions
NoTLS == [Enabled |-> FALSE, ServerName |-> <<>>, UTLS |-> NoUTLS, Reality |-> NoReality]

\* C23 mutant: the default port is 80 for both schemes
HTTPDefaultPortPlain(https) == 80

\* ParseHTTP: defaultPort := 80, 443 when u.Scheme == "https"
HTTPDefaultPort(https) == IF https THEN 443 ELSE 80

\* ParseHTTP: TLS{Enabled: true} when u.Scheme == "https"
HTTPTLS(https) == IF https THEN [NoTLS EXCEPT !.Enabled = TRUE] ELSE NoTLS

\* ParseHTTP, once url.Parse has returned u: https turns TLS on and makes
\* 443 the default port
HTTPOutbound(u, https) ==
    IF ~u.ok THEN Failure("url parse error")
    ELSE IF Hostname(u.Host) = <<>> THEN Failure("missing server in HTTP link")
    ELSE Success([Type       |-> "http",
                  Tag        |-> "proxy",
                  Server     |-> Hostname(u.Host),
                  ServerPort |-> getPortWithDefault(u.Host, HTTPDefaultPort(https)) % 65536,
                  Username   |-> Username(u),
                  Password   |-> Password(u),
                  TLS        |-> HTTPTLS(https)])

ParseHTTP(link) == HTTPOutbound(URLParse(link), HasPrefix(link, HTTPSPrefix))

(***************************************************************************)
(* Bytes and base64                                                        *)
(***************************************************************************)

\* the printable ASCII characters, in the order of their codes 32..126; the
\* grave accent (96) cannot be written in a string and is a token, as the
\* bytes outside this table are
PrintableASCII ==
    Chars(" !\"#$%&'()*+,-./0123456789:;<=>?@ABCDEFGHIJKLMNOPQRSTUVWXYZ[\\]^_") \o
    <<"\\x96">> \o
    Chars("abcdefghijklmnopqrstuvwxyz{|}~")

\* the byte of a character of a Go string
ByteOf(c) ==
    IF PosIn(PrintableASCII, c) # 0 THEN PosIn(PrintableASCII, c) + 31
    ELSE IF c = "\t" THEN 9
    ELSE IF c = "\n" THEN 10
    ELSE IF c = "\r" THEN 13
    ELSE 0

\* the character of a byte; a byte that is not printable ASCII is written
\* as a token of its own
CharOf(b) ==
    IF b \in 32..126 THEN PrintableASCII[b - 31]
    ELSE IF b = 9 THEN "\t"
    ELSE IF b = 10 THEN "\n"
    ELSE IF b = 13 THEN "\r"
    ELSE "\\x" \o ToString(b)

\* the alphabet of base64.StdEncoding and base64.RawStdEncoding
StdAlphabet ==
    Chars("ABCDEFGHIJKLMNOPQRSTUVWXYZabcdefghijklmnopqrstuvwxyz0123456789+/")

\* the alphabet of base64.URLEncoding
URLAlphabet ==
    Chars("ABCDEFGHIJKLMNOPQRSTUVWXYZabcdefghijklmnopqrstuvwxyz0123456789-_")

\* the decoder ignores carriage returns and line feeds
WithoutNewlines(s) == SelectSeq(s, LAMBDA c : c \notin {"\r", "\n"})

\* number of '=' characters at the end of s, at most two are padding
PadCount(s) ==
    IF Len(s) >= 2 /\ s[Len(s)] = "=" /\ s[Len(s) - 1] = "=" THEN 2
    ELSE IF Len(s) >= 1 /\ s[Len(s)] = "=" THEN 1
    ELSE 0

\* the 6-bit values of a run of alphabet characters
SixBits(alphabet, body) == [i \in 1..Len(body) |-> PosIn(alphabet, body[i]) - 1]

\* number of bytes n 6-bit values decode to: four values give three bytes,
\* a final group of two or three values gives one or two bytes
DecodedLen(n) == ((n \div 4) * 3) + (IF n % 4 = 0 THEN 0 ELSE (n % 4) - 1)

\* the k-th byte the 6-bit values v decode to
ByteAt(v, k) ==
    IF (k - 1) % 3 = 0
    THEN (v[4 * ((k - 1) \div 3) + 1] * 4) + (v[4 * ((k - 1) \div 3) + 2] \div 16)
    ELSE IF (k - 1) % 3 = 1
    THEN ((v[4 * ((k - 1) \div 3) + 2] % 16) * 16) + (v[4 * ((k - 1) \div 3) + 3] \div 4)
    ELSE ((v[4 * ((k - 1) \div 3) + 3] % 4) * 64) + v[4 * ((k - 1) \div 3) + 4]

\* the string the body of an encoded text decodes to
DecodedString(alphabet, body) ==
    <<>> \o [k \in 1..DecodedLen(Len(body)) |-> CharOf(ByteAt(SixBits(alphabet, body), k))]

\* every character of body belongs to the alphabet
InAlphabet(alphabet, body) == \A i \in 1..Len(body) : PosIn(alphabet, body[i]) # 0

\* the decoding of s, whose last pads characters are padding: s is a whole
\* number of quads, the last one padded when it carries one or two bytes
DecodeQuads(alphabet, s, pads) ==
    IF /\ Len(s) % 4 = 0
       /\ InAlphabet(alphabet, SubSeq(s, 1, Len(s) - pads))
       /\ (pads = 0 \/ (Len(s) - pads) % 4 = 4 - pads)
    THEN [ok |-> TRUE, str |-> DecodedString(alphabet, SubSeq(s, 1, Len(s) - pads))]
    ELSE [ok |-> FALSE, str |-> <<>>]

\* the decoding of s when it carries '=' padding or none
DecodeTrimmed(alphabet, s) == DecodeQuads(alphabet, s, PadCount(s))

\* DecodeString of a padded encoding (StdEncoding, URLEncoding)
DecodePadded(alphabet, text) == DecodeTrimmed(alphabet, WithoutNewlines(text))

\* the decoding of an unpadded text s
DecodeUnpadded(alphabet, s) ==
    IF Len(s) % 4 # 1 /\ InAlphabet(alphabet, s)
    THEN [ok |-> TRUE, str |-> DecodedString(alphabet, s)]
    ELSE [ok |-> FALSE, str |-> <<>>]

\* DecodeString of an unpadded encoding (RawStdEncoding)
DecodeRaw(alphabet, text) == DecodeUnpadded(alphabet, WithoutNewlines(text))

\* the 6-bit values the bytes of a string encode to
SixBitsOfBytes(b) ==
    [k \in 1..(((Len(b) \div 3) * 4) + (IF Len(b) % 3 = 0 THEN 0 ELSE (Len(b) % 3) + 1)) |->
        IF (k - 1) % 4 = 0
        THEN b[3 * ((k - 1) \div 4) + 1] \div 4
        ELSE IF (k - 1) % 4 = 1
        THEN ((b[3 * ((k - 1) \div 4) + 1] % 4) * 16) +
             (IF 3 * ((k - 1) \div 4) + 2 <= Len(b) THEN b[3 * ((k - 1) \div 4) + 2] \div 16 ELSE 0)
        ELSE IF (k - 1) % 4 = 2
        THEN ((b[3 * ((k - 1) \div 4) + 2] % 16) * 4) +
             (IF 3 * ((k - 1) \div 4) + 3 <= Len(b) THEN b[3 * ((k - 1) \div 4) + 3] \div 64 ELSE 0)
        ELSE b[3 * ((k - 1) \div 4) + 3] % 64]

\* EncodeToString of a padded encoding
EncodePadded(alphabet, str) ==
    LET v == SixBitsOfBytes([i \in 1..Len(str) |-> ByteOf(str[i])])
    IN  [k \in 1..Len(v) |-> alphabet[v[k] + 1]] \o
        (IF Len(str) % 3 = 1 THEN <<"=", "=">>
         ELSE IF Len(str) % 3 = 2 THEN <<"=">>
         ELSE <<>>)

(***************************************************************************)
(* VLESS and Trojan links                                                  *)
(***************************************************************************)

\* what is left of s after its first n characters
AfterGroup(s, n) == SubSeq(s, n + 1, Len(s))

\* the optional dash -? of uuidRegex
SkipDash(s) == IF s # <<>> /\ s[1] = "-" THEN Tail(s) ELSE s

\* a number without its minus sign
SkipMinus(s) == IF s # <<>> /\ s[1] = "-" THEN Tail(s) ELSE s

\* s is made of groups of hexadecimal digits of the given sizes, with an
\* optional dash between two groups and nothing before or after
RECURSIVE MatchHexGroups(_, _)
MatchHexGroups(s, groups) ==
    IF groups = <<>> THEN s = <<>>
    ELSE /\ Len(s) >= Head(groups)
         /\ \A j \in 1..Head(groups) : IsHex(s[j])
         /\ MatchHexGroups(IF Len(groups) > 1
                           THEN SkipDash(AfterGroup(s, Head(groups)))
                           ELSE AfterGroup(s, Head(groups)),
                           Tail(groups))

\* C20 mutant: only the characters are checked, not their number or grouping
uuidRegexMatchAnyGrouping(uuid) ==
    uuid # <<>> /\ \A j \in 1..Len(uuid) : IsHex(uuid[j]) \/ uuid[j] = "-"

\* uuidRegex.MatchString
uuidRegexMatch(uuid) == MatchHexGroups(uuid, <<8, 4, 4, 4, 12>>)

getPort(hostPort) == getPortWithDefault(hostPort, 443)

\* a nil *option.V2RayTransportOptions
NoTransport ==
    [Type |-> "", Path |-> <<>>, Headers |-> <<>>, Host |-> <<>>, ServiceName |-> <<>>]

\* the Host header of a WebSocket transport: set when host is not empty
HostHeader(host) == IF host = <<>> THEN <<>> ELSE <<host>>

\* C21 mutant: the fingerprint is "chrome" whatever fp says
VLESSTLSChromeOnly(query) ==
    IF QueryGet(query, Chars("security")) = Chars("reality")
    THEN [Enabled    |-> TRUE,
          ServerName |-> QueryGet(query, Chars("sni")),
          UTLS       |-> [Enabled |-> TRUE, Fingerprint |-> Chars("chrome")],
          Reality    |-> [Enabled   |-> TRUE,
                          PublicKey |-> QueryGet(query, Chars("pbk")),
                          ShortID   |-> QueryGet(query, Chars("sid"))]]
    ELSE IF QueryGet(query, Chars("security")) = Chars("tls")
    THEN [Enabled    |-> TRUE,
          ServerName |-> QueryGet(query, Chars("sni")),
          UTLS       |-> NoUTLS,
          Reality    |-> NoReality]
    ELSE NoTLS

\* ParseVLESS: the TLS options for security=tls and security=reality
VLESSTLS(query) ==
    IF QueryGet(query, Chars("security")) = Chars("reality")
    THEN [Enabled    |-> TRUE,
          ServerName |-> QueryGet(query, Chars("sni")),
          UTLS       |-> [Enabled     |-> TRUE,
                          Fingerprint |-> IF QueryGet(query, Chars("fp")) # <<>>
                                          THEN QueryGet(query, Chars("fp"))
                                          ELSE Chars("chrome")],
          Reality    |-> [Enabled   |-> TRUE,
                          PublicKey |-> QueryGet(query, Chars("pbk")),
                          ShortID   |-> QueryGet(query, Chars("sid"))]]
    ELSE IF QueryGet(query, Chars("security")) = Chars("tls")
    THEN [Enabled    |-> TRUE,
          ServerName |-> QueryGet(query, Chars("sni")),
          UTLS       |-> NoUTLS,
          Reality    |-> NoReality]
    ELSE NoTLS

\* ParseVLESS: switch transport
VLESSTransport(query) ==
    IF QueryGet(query, Chars("type")) = Chars("ws")
    THEN [NoTransport EXCEPT !.Type = "ws",
                             !.Path = QueryGet(query, Chars("path")),
                             !.Headers = HostHeader(QueryGet(query, Chars("host")))]
    ELSE IF QueryGet(query, Chars("type")) = Chars("grpc")
    THEN [NoTransport EXCEPT !.Type = "grpc",
                             !.ServiceName = QueryGet(query, Chars("serviceName"))]
    ELSE IF QueryGet(query, Chars("type")) \in {Chars("http"), Chars("h2")}
    THEN [NoTransport EXCEPT !.Type = "http",
                             !.Host = <<QueryGet(query, Chars("host"))>>,
                             !.Path = QueryGet(query, Chars("path"))]
    ELSE NoTransport

\* the tag of a link parsed by net/url: its fragment, "proxy" if empty
FragmentTag(u) == IF u.Fragment # <<>> THEN u.Fragment ELSE Chars("proxy")

\* ParseVLESS, once url.Parse has returned u
VLESSOutbound(u) ==
    IF ~u.ok THEN Failure("url parse error")
    ELSE IF Username(u) = <<>> THEN Failure("missing UUID in VLESS link")
    ELSE IF ~uuidRegexMatch(Username(u)) THEN Failure("invalid UUID format in VLESS link")
    ELSE IF Hostname(u.Host) = <<>> THEN Failure("missing server in VLESS link")
    ELSE IF /\ QueryGet(u.RawQuery, Chars("security")) = Chars("reality")
            /\ QueryGet(u.RawQuery, Chars("pbk")) = <<>>
         THEN Failure("missing public key (pbk) for Reality in VLESS link")
    ELSE Success([Type       |-> "vless",
                  Tag        |-> FragmentTag(u),
                  Server     |-> Hostname(u.Host),
                  ServerPort |-> getPort(u.Host) % 65536,
                  UUID       |-> Username(u),
                  Flow       |-> QueryGet(u.RawQuery, Chars("flow")),
                  TLS        |-> VLESSTLS(u.RawQuery),
                  Transport  |-> VLESSTransport(u.RawQuery)])

ParseVLESS(link) == VLESSOutbound(URLParse(link))

\* ParseTrojan: switch transport
TrojanTransport(query) ==
    IF QueryGet(query, Chars("type")) = Chars("ws")
    THEN [NoTransport EXCEPT !.Type = "ws",
                             !.Path = QueryGet(query, Chars("path")),
                             !.Headers = HostHeader(QueryGet(query, Chars("host")))]
    ELSE IF QueryGet(query, Chars("type")) = Chars("grpc")
    THEN [NoTransport EXCEPT !.Type = "grpc",
                             !.ServiceName = QueryGet(query, Chars("serviceName"))]
    ELSE NoTransport

\* ParseTrojan: sni := query.Get("sni"), the server when that is empty
TrojanServerName(sni, server) == IF sni = <<>> THEN server ELSE sni

\* ParseTrojan, once url.Parse has returned u
TrojanOutbound(u) ==
    IF ~u.ok THEN Failure("url parse error")
    ELSE IF Username(u) = <<>> THEN Failure("missing password in Trojan link")
    ELSE IF Hostname(u.Host) = <<>> THEN Failure("missing server in Trojan link")
    ELSE Success([Type       |-> "trojan",
                  Tag        |-> FragmentTag(u),
                  Server     |-> Hostname(u.Host),
                  ServerPort |-> getPort(u.Host) % 65536,
                  Password   |-> Username(u),
                  TLS        |-> [NoTLS EXCEPT
                                    !.Enabled = TRUE,
                                    !.ServerName = TrojanServerName(
                                                      QueryGet(u.RawQuery, Chars("sni")),
                                                      Hostname(u.Host))],
                  Transport  |-> TrojanTransport(u.RawQuery)])

ParseTrojan(link) == TrojanOutbound(URLParse(link))

(***************************************************************************)
(* VMess links                                                             *)
(***************************************************************************)

\* the JSON keys of vmessConfig's fields
VMessFieldNames ==
    {Chars("v"), Chars("ps"), Chars("add"), Chars("port"), Chars("id"), Chars("aid"),
     Chars("net"), Chars("type"), Chars("host"), Chars("path"), Chars("tls"),
     Chars("sni"), Chars("alpn")}

\* a vmessConfig whose fields are all empty
EmptyVMessConfig == [k \in VMessFieldNames |-> <<>>]

\* encoding/json matches a key to a field without regard to case
FoldKey(key) ==
    [i \in 1..Len(key) |->
        IF ByteOf(key[i]) \in 65..90 THEN CharOf(ByteOf(key[i]) + 32) ELSE key[i]]

\* a JSON string without escapes that starts at the quote v[1]: the offset
\* of its closing quote in Tail(v), its content, and what follows it
JSONStringEnd(v) == Index(Tail(v), <<"\"">>)

JSONString(v) == SubSeq(v, 2, JSONStringEnd(v) + 1)

JSONAfterString(v) == SliceFrom(v, JSONStringEnd(v) + 2)

\* v starts with a complete JSON string that holds no escape and no
\* control character
JSONStartsWithString(v) ==
    /\ v # <<>>
    /\ v[1] = "\""
    /\ JSONStringEnd(v) # -1
    /\ \A j \in 1..Len(JSONString(v)) :
          JSONString(v)[j] # "\\" /\ ByteOf(JSONString(v)[j]) >= 32

\* a JSON value that is not a string, an object or an array: the text up
\* to the next ',' or '}'
JSONLiteral(v) ==
    SubSeq(v, 1, Cardinality({i \in 1..Len(v) : \A j \in 1..i : v[j] \notin {",", "}"}}))

JSONAfterLiteral(v) == SubSeq(v, Len(JSONLiteral(v)) + 1, Len(v))

\* a JSON integer: an optional minus sign and digits without a leading zero
IsJSONInteger(tok) ==
    /\ SkipMinus(tok) # <<>>
    /\ \A j \in 1..Len(SkipMinus(tok)) : IsDigit(SkipMinus(tok)[j])
    /\ (Len(SkipMinus(tok)) > 1 => SkipMinus(tok)[1] # "0")

IsJSONLiteral(tok) ==
    \/ tok \in {Chars("true"), Chars("false"), Chars("null")}
    \/ IsJSONInteger(tok)

\* the vmessConfig after a member whose value is the string str: the field
\* of the key is set, a key that names no field is skipped
JSONSetField(acc, key, str) ==
    IF key \in VMessFieldNames THEN [acc EXCEPT !.cfg[key] = str] ELSE acc

\* the vmessConfig after a member whose value is the literal lit: null
\* leaves the field, any other literal for a field is a type error
JSONSetLiteral(acc, key, lit) ==
    IF key \in VMessFieldNames /\ lit # Chars("null")
    THEN [acc EXCEPT !.typeErr = TRUE]
    ELSE acc

\* the members of a JSON object, from the key at s[1] to the closing brace,
\* decoded into the vmessConfig acc.cfg
RECURSIVE JSONMembers(_, _), JSONMemberValue(_, _, _), JSONNextMember(_, _)
JSONMembers(s, acc) ==
    IF \/ ~JSONStartsWithString(s)
       \/ JSONAfterString(s) = <<>>
       \/ JSONAfterString(s)[1] # ":"
    THEN [acc EXCEPT !.ok = FALSE]
    ELSE JSONMemberValue(FoldKey(JSONString(s)), Tail(JSONAfterString(s)), acc)

\* the value v of the member named key, and the members after it
JSONMemberValue(key, v, acc) ==
    IF JSONStartsWithString(v)
    THEN JSONNextMember(JSONAfterString(v), JSONSetField(acc, key, JSONString(v)))
    ELSE IF IsJSONLiteral(JSONLiteral(v))
    THEN JSONNextMember(JSONAfterLiteral(v), JSONSetLiteral(acc, key, JSONLiteral(v)))
    ELSE [acc EXCEPT !.ok = FALSE]

\* what follows a member: the closing brace, or a comma and a member
JSONNextMember(rest, acc) ==
    IF rest = <<"}">> THEN acc
    ELSE IF rest # <<>> /\ rest[1] = "," THEN JSONMembers(Tail(rest), acc)
    ELSE [acc EXCEPT !.ok = FALSE]

\* json.Unmarshal returns an error for a text that is not one JSON object
\* and for a field given a value that is not a string
JSONResult(r) == [ok |-> r.ok /\ ~r.typeErr, cfg |-> r.cfg]

\* json.Unmarshal(decoded, &vmess) for a text in compact form whose values
\* are strings without escapes, integers, true, false or null
JSONUnmarshal(text) ==
    JSONResult(IF text = Chars("{}")
               THEN [ok |-> TRUE, typeErr |-> FALSE, cfg |-> EmptyVMessConfig]
               ELSE IF text # <<>> /\ text[1] = "{"
               THEN JSONMembers(Tail(text),
                                [ok |-> TRUE, typeErr |-> FALSE, cfg |-> EmptyVMessConfig])
               ELSE [ok |-> FALSE, typeErr |-> FALSE, cfg |-> EmptyVMessConfig])

VMessPrefix == Chars("vmess://")

\* decoded, err := first; if err != nil { decoded, err = second }
DecodedOrElse(first, second) == IF first.ok THEN first ELSE second

\* ParseVMess: StdEncoding, then RawStdEncoding
VMessDecode(encoded) ==
    DecodedOrElse(DecodePadded(StdAlphabet, encoded), DecodeRaw(StdAlphabet, encoded))

\* fmt.Sscanf(s, "%d", &port) leaves port as it was when it reads no number
ScannedOrElse(sc, port) == IF sc.ok THEN sc.val ELSE port

\* ParseVMess: port := 443; fmt.Sscanf(vmess.Port, "%d", &port)
VMessPort(portField) == ScannedOrElse(SscanfInt(portField), 443)

\* ParseVMess: the TLS options when tls is "tls"
VMessTLS(vmess) ==
    IF vmess[Chars("tls")] = Chars("tls")
    THEN [NoTLS EXCEPT !.Enabled = TRUE,
                       !.ServerName = IF /\ vmess[Chars("host")] # <<>>
                                         /\ vmess[Chars("sni")] = <<>>
                                      THEN vmess[Chars("host")]
                                      ELSE vmess[Chars("sni")]]
    ELSE NoTLS

\* ParseVMess: switch vmess.Net
VMessTransport(vmess) ==
    IF vmess[Chars("net")] = Chars("ws")
    THEN [NoTransport EXCEPT !.Type = "ws",
                             !.Path = vmess[Chars("path")],
                             !.Headers = HostHeader(vmess[Chars("host")])]
    ELSE IF vmess[Chars("net")] = Chars("grpc")
    THEN [NoTransport EXCEPT !.Type = "grpc", !.ServiceName = vmess[Chars("path")]]
    ELSE IF vmess[Chars("net")] \in {Chars("http"), Chars("h2")}
    THEN [NoTransport EXCEPT !.Type = "http",
                             !.Host = <<vmess[Chars("host")]>>,
                             !.Path = vmess[Chars("path")]]
    ELSE NoTransport

\* ParseVMess: the tag is vmess.PS, "proxy" when that is empty
VMessTag(ps) == IF ps # <<>> THEN ps ELSE Chars("proxy")

\* ParseVMess, once the JSON is unmarshalled into vmess
VMessOutbound(vmess) ==
    IF vmess[Chars("add")] = <<>> THEN Failure("missing server address in VMess link")
    ELSE IF vmess[Chars("id")] = <<>> THEN Failure("missing UUID in VMess link")
    ELSE IF ~uuidRegexMatch(vmess[Chars("id")])
         THEN Failure("invalid UUID format in VMess link")
    ELSE Success([Type       |-> "vmess",
                  Tag        |-> VMessTag(vmess[Chars("ps")]),
                  Server     |-> vmess[Chars("add")],
                  ServerPort |-> VMessPort(vmess[Chars("port")]) % 65536,
                  UUID       |-> vmess[Chars("id")],
                  Security   |-> "auto",
                  TLS        |-> VMessTLS(vmess),
                  Transport  |-> VMessTransport(vmess)])

\* ParseVMess, once json.Unmarshal has returned
VMessFromJSON(json) ==
    IF ~json.ok THEN Failure("invalid JSON in VMess link") ELSE VMessOutbound(json.cfg)

\* ParseVMess, once the text after the prefix is decoded
VMessFromDecoded(decoded) ==
    IF ~decoded.ok THEN Failure("invalid base64 encoding in VMess link")
    ELSE VMessFromJSON(JSONUnmarshal(decoded.str))

ParseVMess(link) == VMessFromDecoded(VMessDecode(TrimPrefix(link, VMessPrefix)))

(***************************************************************************)
(* Shadowsocks links                                                       *)
(***************************************************************************)

SSPrefix == Chars("ss://")

\* parseShadowsocksWithDepth: const maxRecursionDepth
maxRecursionDepth == 2

\* the link without its ss:// prefix and without its fragment
SSBody(link) == Before(TrimPrefix(link, SSPrefix), <<"#">>)

\* the fragment of the link: what follows the first '#', empty if none
SSFragment(link) == After(TrimPrefix(link, SSPrefix), <<"#">>)

\* decoded, err := ...; if err == nil { the decoded string } else { other }
StringOrElse(decoded, other) == IF decoded.ok THEN decoded.str ELSE other

\* the userinfo after the attempts to decode it as base64: the standard
\* alphabet first, the URL alphabet next, else as it is
SSDecodeUserInfo(raw) ==
    StringOrElse(DecodePadded(StdAlphabet, raw),
                 StringOrElse(DecodePadded(URLAlphabet, raw), raw))

\* userInfo := parts[0], decoded when it is base64
SSUserInfo(body) == SSDecodeUserInfo(Split(body, <<"@">>)[1])

\* strings.SplitN(userInfo, ":", 2)
SSMethod(userInfo) == Before(userInfo, <<":">>)

SSPassword(userInfo) == After(userInfo, <<":">>)

\* the server of serverInfo = parts[1]
SSServer(serverInfo) ==
    IF HasPrefix(serverInfo, <<"[">>)
    THEN IF LastIndex(serverInfo, <<"]", ":">>) # -1
         THEN SubSeq(serverInfo, 2, LastIndex(serverInfo, <<"]", ":">>))
         ELSE IF serverInfo[Len(serverInfo)] = "]"
         THEN SubSeq(serverInfo, 2, Len(serverInfo) - 1)
         ELSE <<>>
    ELSE Split(serverInfo, <<":">>)[1]

\* the port of serverInfo as fmt.Sscanf reads it, 0 when it reads none
SSScannedPort(serverInfo) ==
    IF HasPrefix(serverInfo, <<"[">>)
    THEN IF LastIndex(serverInfo, <<"]", ":">>) # -1
         THEN ScannedOrElse(
                 SscanfInt(SliceFrom(serverInfo, LastIndex(serverInfo, <<"]", ":">>) + 2)), 0)
         ELSE 0
    ELSE IF Len(Split(serverInfo, <<":">>)) > 1
         THEN ScannedOrElse(SscanfInt(Split(serverInfo, <<":">>)[2]), 0)
         ELSE 0

\* C22 mutant: only a port below 1 is replaced
SSValidPortNoUpperLimit(port) == IF port < 1 THEN 8388 ELSE port

\* parseShadowsocksWithDepth: "Validate port"
SSValidPort(port) == IF port < 1 \/ port > MaxPort THEN 8388 ELSE port

\* parseShadowsocksWithDepth: the port after "Validate port"
SSPort(serverInfo) == SSValidPort(SSScannedPort(serverInfo))

\* the whole body decoded as base64: the standard alphabet first, the URL
\* alphabet next
SSDecodeBody(body) ==
    DecodedOrElse(DecodePadded(StdAlphabet, body), DecodePadded(URLAlphabet, body))

\* parseShadowsocksWithDepth: the tag is the fragment, "proxy" when empty
SSTag(fragment) == IF fragment = <<>> THEN Chars("proxy") ELSE fragment

\* parseShadowsocksWithDepth: the outbound of a link whose fragment,
\* userinfo and server part are known
SSOutbound(fragment, userInfo, serverInfo) ==
    IF SSServer(serverInfo) = <<>> THEN Failure("missing server in Shadowsocks link")
    ELSE IF SSMethod(userInfo) = <<>> THEN Failure("missing method in Shadowsocks link")
    ELSE Success([Type       |-> "shadowsocks",
                  Tag        |-> SSTag(fragment),
                  Server     |-> SSServer(serverInfo),
                  ServerPort |-> SSPort(serverInfo) % 65536,
                  Method     |-> SSMethod(userInfo),
                  Password   |-> SSPassword(userInfo)])

\* parseShadowsocksWithDepth: the branch for a body that holds an '@'
SSParseParts(fragment, body) ==
    SSOutbound(fragment, SSUserInfo(body), Split(body, <<"@">>)[2])

SSParsePlain(link) == SSParseParts(SSFragment(link), SSBody(link))

\* parseShadowsocksWithDepth at depth, for a link whose body holds an '@'
\* (the parts are parsed) or none (the body is decoded and parsed again as
\* a link one level deeper)
RECURSIVE parseShadowsocksWithDepth(_, _), SSParseBody(_, _, _), SSParseDecoded(_, _)
parseShadowsocksWithDepth(link, depth) ==
    IF depth > maxRecursionDepth
    THEN Failure("too many levels of base64 encoding in Shadowsocks link")
    ELSE SSParseBody(link, SSBody(link), depth)

SSParseBody(link, body, depth) ==
    IF Index(body, <<"@">>) # -1 THEN SSParsePlain(link)
    ELSE SSParseDecoded(SSDecodeBody(body), depth)

SSParseDecoded(decoded, depth) ==
    IF ~decoded.ok THEN Failure("invalid base64 encoding in Shadowsocks link")
    ELSE parseShadowsocksWithDepth(SSPrefix \o decoded.str, depth + 1)

ParseShadowsocks(link) == parseShadowsocksWithDepth(link, 0)

VLESSPrefix == Chars("vless://")

TrojanPrefix == Chars("trojan://")

\* Parse: the error for a link of no known scheme names strings.Split(link, "://")[0]
UnsupportedProtocol(link) ==
    [Failure("unsupported protocol") EXCEPT !.detail = Before(link, <<":", "/", "/">>)]

\* C19 mutant: a link of exactly MaxShareLinkLength bytes is too long
TooLongInclusive(link) == Len(link) >= MaxShareLinkLength

\* Parse: len(link) > MaxShareLinkLength
TooLong(link) == Len(link) > MaxShareLinkLength

\* Parse, once the link is trimmed
ParseTrimmed(link) ==
    IF TooLong(link) THEN Failure("share link too long")
    ELSE IF HasPrefix(link, VLESSPrefix) THEN ParseVLESS(link)
    ELSE IF HasPrefix(link, VMessPrefix) THEN ParseVMess(link)
    ELSE IF HasPrefix(link, SSPrefix) THEN ParseShadowsocks(link)
    ELSE IF HasPrefix(link, TrojanPrefix) THEN ParseTrojan(link)
    ELSE IF HasPrefix(link, SocksPrefix) \/ HasPrefix(link, SocksPrefix5)
         THEN ParseSOCKS(link)
    ELSE IF HasPrefix(link, HTTPPrefix) \/ HasPrefix(link, HTTPSPrefix)
         THEN ParseHTTP(link)
    ELSE UnsupportedProtocol(link)

\* C18 mutant: the link is dispatched as it was given, white space included
ParseUntrimmed(rawLink) == ParseTrimmed(rawLink)

Parse(rawLink) == ParseTrimmed(TrimSpace(rawLink))

(***************************************************************************)
(* ProxyBox lifecycle                                                      *)
(*                                                                         *)
(* Every call of Start, StartContext, Stop, StopContext or FromSharedLink  *)
(* gets a fresh call number.  A call constructs at most one engine and     *)
(* spawns at most one goroutine with one result channel, so the engine,    *)
(* the goroutine and the channel of a call are indexed by its number.      *)
(* The engine (box.Box of sing-box) is external: whether its construction, *)
(* its Start and its Close succeed, and whether they return at all, is a   *)
(* nondeterministic choice.                                                *)
(***************************************************************************)

MaxCalls == 3

ChanCap == 1

CallIds == 1..MaxCalls

Boxes == {"pb1", "pb2"}

Threads == {"t1", "t2"}

NoEngine == 0

VARIABLES
    box,        \* the ProxyBox objects: instance, ctx, config, outbound
    eng,        \* the engines constructed by box.New, by call number
    gor,        \* the goroutines spawned by StartContext and StopContext
    done,       \* the result channels, each of capacity ChanCap
    thr,        \* the caller threads: the call in progress and its locals
    callCount,  \* number of calls begun
    obs         \* the last result a concurrent observer got from IsRunning

vars == <<box, eng, gor, done, thr, callCount, obs>>

\* listen addresses the callers configure
AddrEmpty == <<>>

AddrTor == <<"1", "2", "7", ".", "0", ".", "0", ".", "1", ":", "9", "0", "5", "0">>

AddrHostname == <<"h", ":", "8", "0">>

AddrIPv6 == <<"[", ":", ":", "1", "]", ":", "8", "0">>

AddrPortZero == <<"1", "0", ".", "0", ".", "0", ".", "2", ":", "0">>

AddrTest == Chars("127.0.0.1:19999")

AddrTopPort == Chars("0.0.0.0:65535")

AddrPortTooBig == Chars("10.0.0.2:65536")

ListenAddrs ==
    {AddrEmpty, AddrTor, AddrHostname, AddrIPv6, AddrPortZero,
     AddrTest, AddrTopPort, AddrPortTooBig}

\* the configurations of TestProxyBox_MultipleInstances, one with defaults
ProxyBoxConfigs ==
    {[Outbound |-> [Type |-> "direct", Tag |-> "direct1"], ListenAddr |-> AddrTor, LogLevel |-> "error"],
     [Outbound |-> [Type |-> "direct", Tag |-> "direct2"], ListenAddr |-> AddrEmpty, LogLevel |-> ""]}

\* share links handed to FromSharedLink
LinkSocks == SocksPrefix5 \o <<"u", "@", "h", ":", "9">>

LinkSocksNoServer == <<" ">> \o SocksPrefix \o <<":", "9">>

LinkHTTPS == HTTPSPrefix \o <<"h">>

LinkFTP == <<"f", "t", "p", ":", "/", "/", "h">>

SharedLinks == {LinkSocks, LinkSocksNoServer, LinkHTTPS, LinkFTP}

\* a UUID in its usual form, and the same UUID with no dash and with some
SampleUUID == Chars("550e8400-e29b-41d4-a716-446655440000")

SampleUUIDNoDash == Chars("550e8400e29b41d4a716446655440000")

SampleUUIDSomeDashes == Chars("550E8400-e29b41d4-a716446655440000")

\* strings that are not UUIDs: too short, a letter that is no hexadecimal
\* digit, one digit too many, a dash at the end, a doubled dash, a dash
\* inside a group and the placeholder of the tests
NotUUIDs ==
    {Chars("550e8400-e29b-41d4-a716-44665544000"),
     Chars("550e8400-e29b-41d4-a716-44665544000g"),
     Chars("550e8400-e29b-41d4-a716-4466554400001"),
     Chars("550e8400-e29b-41d4-a716-446655440000-"),
     Chars("550e8400--e29b-41d4-a716-446655440000"),
     Chars("550e-8400e29b41d4a716446655440000"),
     Chars("uuid-here")}

\* the UUIDs put into VLESS and VMess links, the empty one included
LinkUUIDs == {SampleUUID, SampleUUIDNoDash, SampleUUIDSomeDashes, <<>>} \cup NotUUIDs

\* host[:port] parts of links: no port, ports in range and ports out of range
HostPorts ==
    {Chars("h"), Chars("h:8443"), Chars("h:65535"), Chars("h:0"), Chars("h:65536")}

VLESSLinks ==
    {VLESSPrefix \o id \o Chars("@h:443?security=tls&sni=s#Name") : id \in LinkUUIDs} \cup
    {VLESSPrefix \o SampleUUID \o <<"@">> \o hp : hp \in HostPorts} \cup
    {VLESSPrefix \o Chars("h:443"), VLESSPrefix \o SampleUUID \o Chars("@:443"),
     VLESSPrefix \o SampleUUID \o Chars("@h:x")}

\* VLESS links that ask for Reality: with and without a public key, a
\* fingerprint and a short id; and links that give a public key without
\* asking for Reality
RealityLinks ==
    {VLESSPrefix \o SampleUUID \o Chars("@h:443?") \o q :
        q \in {Chars("security=reality&pbk=K&sid=ab&fp=firefox&sni=s"),
               Chars("security=reality&pbk=K"),
               Chars("security=reality&pbk=K&fp="),
               Chars("security=reality&sid=ab&fp=firefox"),
               Chars("security=reality&pbk=&fp=firefox"),
               Chars("security=tls&pbk=K&fp=firefox"),
               Chars("pbk=K&sid=ab")}} \cup
    {VLESSPrefix \o Chars("uuid-here@h:443?security=reality")}

TrojanLinks ==
    {TrojanPrefix \o Chars("pw@") \o hp : hp \in HostPorts} \cup
    {TrojanPrefix \o Chars("@h:443"), TrojanPrefix \o Chars("pw@:443")}

SocksLinks ==
    {SocksPrefix5 \o Chars("u:p@") \o hp : hp \in HostPorts} \cup
    {SocksPrefix \o Chars(":1080")}

HTTPLinks ==
    {HTTPPrefix \o hp : hp \in HostPorts} \cup {HTTPSPrefix \o hp : hp \in HostPorts} \cup
    {HTTPPrefix \o Chars("u:p@h:99999"), HTTPSPrefix \o Chars("u:p@h:3128/path?x=1#f"),
     HTTPSPrefix \o Chars("[::1]"), HTTPPrefix \o Chars("[::1]:8080"),
     HTTPPrefix \o Chars(":80")}

\* the JSON text of a VMess link, as json.Marshal writes a vmessConfig
VMessJSON(add, port, id) ==
    Chars("{\"v\":\"2\",\"ps\":\"Name\",\"add\":\"") \o add \o Chars("\",\"port\":\"") \o port \o
    Chars("\",\"id\":\"") \o id \o Chars("\",\"net\":\"ws\",\"tls\":\"tls\"}")

\* the port field of VMess links: absent, in range, zero, negative, not a
\* number, and beyond 16 bits
VMessPorts ==
    {<<>>, Chars("8443"), Chars("65535"), Chars("0"), Chars("-1"), Chars("abc"),
     Chars("65536"), Chars("70000")}

VMessLinks ==
    {VMessPrefix \o EncodePadded(StdAlphabet, VMessJSON(Chars("h"), Chars("443"), id)) :
        id \in LinkUUIDs} \cup
    {VMessPrefix \o EncodePadded(StdAlphabet, VMessJSON(Chars("h"), port, SampleUUID)) :
        port \in VMessPorts} \cup
    {VMessPrefix \o EncodePadded(StdAlphabet, VMessJSON(<<>>, Chars("443"), <<>>)),
     VMessPrefix \o EncodePadded(StdAlphabet, Chars("{\"add\":\"h\",\"port\":8443,\"id\":\"") \o
                                               SampleUUIDNoDash \o Chars("\"}")),
     VMessPrefix \o EncodePadded(StdAlphabet, Chars("{invalid json")),
     VMessPrefix \o Chars("invalid!!!base64")}

\* a text base64-encoded n times with the standard alphabet
RECURSIVE Wrapped(_, _)
Wrapped(text, n) ==
    IF n = 0 THEN text ELSE EncodePadded(StdAlphabet, Wrapped(text, n - 1))

\* Shadowsocks links in the plain form, with a base64 userinfo, and with
\* the whole of method:password@host:port base64-encoded one to four times
SSPlainLinks ==
    {SSPrefix \o Chars("aes-256-gcm:pw@") \o hp \o frag :
        hp \in HostPorts \cup {Chars("h:x"), Chars("h:"), Chars("h:99999"), Chars("h:-1"),
                                Chars("h:0080"), Chars("[::1]:8388"), Chars("[::1]"),
                                Chars("[::1]:0")},
        frag \in {<<>>, Chars("#Name")}}

SSUserInfoLinks ==
    {SSPrefix \o EncodePadded(StdAlphabet, Chars("aes-256-gcm:pw")) \o Chars("@h:8388") \o frag :
        frag \in {<<>>, Chars("#Name")}}

SSWrappedLinks ==
    {SSPrefix \o Wrapped(Chars("aes-256-gcm:pw@h:8388"), n) \o frag :
        n \in 1..4, frag \in {<<>>, Chars("#Name")}} \cup
    {SSPrefix \o EncodePadded(StdAlphabet, Chars("aes-256-gcm:pw@h:8388#Inner")),
     SSPrefix \o EncodePadded(URLAlphabet, Chars("aes-256-gcm:pw?>@h:8388")),
     SSPrefix \o Chars("!!!"),
     SSPrefix \o Chars(":pw@h:8388"),
     SSPrefix \o Chars("m:pw@:8388")}

\* links of no supported scheme, and links with surrounding white space
OtherLinks ==
    {Chars("ftp://h:21"), Chars("hello"), <<>>, Chars("VLESS://") \o SampleUUID \o Chars("@h:443"),
     Chars("ss:/m:p@h:1"), Chars("wireguard://key@h:51820#wg"),
     Chars(" \t") \o TrojanPrefix \o Chars("pw@h:443#t") \o Chars("\r\n"),
     Chars("\n") \o SSPrefix \o Chars("m:pw@h:1") \o Chars("  "),
     Chars(" ftp://h ")}

\* n copies of character c
Repeat(c, n) == [i \in 1..n |-> c]

\* a link handed to Parse: the text link followed by fill bytes 'a'
LinkInput(link, fill) == [link |-> link, fill |-> fill]

\* the input whose text starts with base and is n bytes long after
\* strings.TrimSpace
PaddedTo(base, n) == LinkInput(base, n - Len(TrimSpace(base)))

\* links at the size limit: links of exactly MaxShareLinkLength bytes, one
\* of them after white space, links of four supported schemes with one
\* byte more, and an over-long link of no supported scheme
LongLinks ==
    {PaddedTo(HTTPPrefix \o Chars("h:80/"), MaxShareLinkLength),
     PaddedTo(Chars(" \n") \o SocksPrefix5 \o Chars("h:1080/"), MaxShareLinkLength),
     PaddedTo(SSPrefix \o Chars("m:pw@h:1#"), MaxShareLinkLength + 1),
     PaddedTo(VLESSPrefix \o SampleUUID \o Chars("@h:443#"), MaxShareLinkLength + 1),
     PaddedTo(HTTPPrefix \o Chars("h:80/"), MaxShareLinkLength + 1),
     PaddedTo(TrojanPrefix \o Chars("pw@h:443#"), MaxShareLinkLength + 1),
     PaddedTo(Chars("ftp://h/"), MaxShareLinkLength + 1)}

\* the links of ordinary length handed to Parse
ParseLinks ==
    VLESSLinks \cup RealityLinks \cup VMessLinks \cup SSPlainLinks \cup SSUserInfoLinks \cup SSWrappedLinks \cup
    TrojanLinks \cup SocksLinks \cup HTTPLinks \cup OtherLinks

\* everything handed to Parse
ParseInputs == {LinkInput(l, 0) : l \in ParseLinks} \cup LongLinks

NoBox == "none"

NoConfig == [Inbounds |-> <<>>]

FreshBox ==
    [exists |-> FALSE, handed |-> FALSE, instance |-> NoEngine,
     ctxCancelled |-> FALSE, config |-> NoConfig, outbound |-> NoOutbound]

NoEngineRec ==
    [status |-> "none", box |-> NoBox, ctxLive |-> TRUE, starts |-> 0, closes |-> 0]

NoGoroutine == [kind |-> "none", eng |-> NoEngine, pc |-> "none", res |-> "nil"]

IdleThread ==
    [op |-> "idle", id |-> 0, box |-> NoBox, pc |-> "idle", ctx |-> "background",
     instance |-> NoEngine, ret |-> "none", site |-> "none", entry |-> NoEngine,
     link |-> <<>>, listen |-> AddrEmpty, out |-> NoOutbound, pb |-> NoBox,
     detail |-> <<>>, fill |-> 0]

Init ==
    /\ box = [b \in Boxes |-> FreshBox]
    /\ eng = [c \in CallIds |-> NoEngineRec]
    /\ gor = [c \in CallIds |-> NoGoroutine]
    /\ done = [c \in CallIds |-> <<>>]
    /\ thr = [t \in Threads |-> IdleThread]
    /\ callCount = 0
    /\ obs = [box |-> NoBox, running |-> FALSE, teardown |-> FALSE]

\* ProxyBox.IsRunning
IsRunning(b) == box[b].instance # NoEngine

\* a thread is between calls
AtRest(t) == thr[t].pc \in {"idle", "returned"}

\* the call of thread t returns err from the return statement named site;
\* inside FromSharedLink it is pb.Start() that returns, to FromSharedLink
Returned(t, err, site) ==
    [thr[t] EXCEPT !.pc = IF thr[t].op = "FromSharedLink" THEN "fsl_started" ELSE "returned",
                   !.ret = err,
                   !.site = site]

\* the next unused ProxyBox object
NextBox == CHOOSE b \in Boxes : ~box[b].exists /\ (b = "pb2" => box["pb1"].exists)

\* the ProxyBox NewProxyBox returns for a configuration
NewBoxValue(cfg) ==
    [exists |-> TRUE, handed |-> FALSE, instance |-> NoEngine, ctxCancelled |-> FALSE,
     config |-> createConfig(WithDefaults(cfg)), outbound |-> cfg.Outbound]

\* NewProxyBox(cfg), returning the ProxyBox to the caller
NewProxyBox(t) ==
    /\ AtRest(t)
    /\ \E b \in Boxes : ~box[b].exists
    /\ \E cfg \in ProxyBoxConfigs :
          /\ box' = [box EXCEPT ![NextBox] = [NewBoxValue(cfg) EXCEPT !.handed = TRUE]]
          /\ thr' = [thr EXCEPT ![t] = [IdleThread EXCEPT !.op = "NewProxyBox",
                                                          !.box = NextBox,
                                                          !.pb = NextBox,
                                                          !.pc = "returned",
                                                          !.ret = "nil"]]
    /\ UNCHANGED <<eng, gor, done, callCount, obs>>

\* a caller enters StartContext with context c
EnterStart(t, c) ==
    /\ AtRest(t)
    /\ callCount < MaxCalls
    /\ \E b \in Boxes :
          /\ box[b].handed
          /\ thr' = [thr EXCEPT ![t] =
                [IdleThread EXCEPT !.op = IF c = "background" THEN "Start" ELSE "StartContext",
                                   !.id = callCount + 1,
                                   !.box = b,
                                   !.pc = "sc_check",
                                   !.ctx = c,
                                   !.entry = box[b].instance]]
    /\ callCount' = callCount + 1
    /\ UNCHANGED <<box, eng, gor, done, obs>>

\* a caller enters Start or StartContext(ctx) with some context
BeginStart(t) == \E c \in {"background", "live", "cancelled"} : EnterStart(t, c)

\* Start(): return pb.StartContext(context.Background())
Start(t) == EnterStart(t, "background")

\* a caller enters StopContext with context c
EnterStop(t, c) ==
    /\ AtRest(t)
    /\ callCount < MaxCalls
    /\ \E b \in Boxes :
          /\ box[b].handed
          /\ thr' = [thr EXCEPT ![t] =
                [IdleThread EXCEPT !.op = IF c = "background" THEN "Stop" ELSE "StopContext",
                                   !.id = callCount + 1,
                                   !.box = b,
                                   !.pc = "st_check",
                                   !.ctx = c,
                                   !.entry = box[b].instance]]
    /\ callCount' = callCount + 1
    /\ UNCHANGED <<box, eng, gor, done, obs>>

\* a caller enters Stop or StopContext(ctx) with some context
BeginStop(t) == \E c \in {"background", "live", "cancelled"} : EnterStop(t, c)

\* Stop(): return pb.StopContext(context.Background())
Stop(t) == EnterStop(t, "background")

\* the context of a call in progress is cancelled or its deadline passes
CancelCtx(t) ==
    /\ ~AtRest(t)
    /\ thr[t].ctx = "live"
    /\ thr' = [thr EXCEPT ![t].ctx = "cancelled"]
    /\ UNCHANGED <<box, eng, gor, done, callCount, obs>>

\* C1 mutant: a ProxyBox that was stopped once refuses to start again
AlreadyStartedOnce(b) == box[b].instance # NoEngine \/ box[b].ctxCancelled

\* C4 mutant: Start does not look at the stored handle
AlreadyStartedNever(b) == FALSE

\* StartContext: the condition pb.instance != nil
AlreadyStarted(b) == box[b].instance # NoEngine

\* StartContext: if pb.instance != nil
StartCheck(t) ==
    /\ thr[t].pc = "sc_check"
    /\ thr' = [thr EXCEPT ![t] =
                  IF AlreadyStarted(thr[t].box)
                  THEN Returned(t, "already started", "check")
                  ELSE [thr[t] EXCEPT !.pc = "sc_precheck"]]
    /\ UNCHANGED <<box, eng, gor, done, callCount, obs>>

\* C30 mutant: StartContext has no select before box.New, the context is
\* looked at only while waiting for the spawned Start
StartPrecheckSkipped(t) ==
    /\ thr[t].pc = "sc_precheck"
    /\ thr' = [thr EXCEPT ![t].pc = "sc_new"]
    /\ UNCHANGED <<box, eng, gor, done, callCount, obs>>

\* StartContext: the select with a default case before box.New
StartPrecheck(t) ==
    /\ thr[t].pc = "sc_precheck"
    /\ thr' = [thr EXCEPT ![t] =
                  IF thr[t].ctx = "cancelled"
                  THEN Returned(t, "ctx", "precheck")
                  ELSE [thr[t] EXCEPT !.pc = "sc_new"]]
    /\ UNCHANGED <<box, eng, gor, done, callCount, obs>>

\* the engine box.New constructs for call c of thread t
NewEngine(t) ==
    [status |-> "new", box |-> thr[t].box,
     ctxLive |-> ~box[thr[t].box].ctxCancelled, starts |-> 0, closes |-> 0]

\* box.New returned an error for call c of thread t: no engine exists, the
\* table keeps that the call reached box.New on this ProxyBox
FailedConstruction(t) == [NoEngineRec EXCEPT !.status = "unbuilt", !.box = thr[t].box]

\* C6 mutant: the handle is stored as soon as the engine is constructed
StartNewStoresHandle(t) ==
    /\ thr[t].pc = "sc_new"
    /\ \E ok \in BOOLEAN :
          IF ok
          THEN /\ eng' = [eng EXCEPT ![thr[t].id] = NewEngine(t)]
               /\ box' = [box EXCEPT ![thr[t].box].instance = thr[t].id]
               /\ thr' = [thr EXCEPT ![t].instance = thr[t].id, ![t].pc = "sc_spawn"]
          ELSE /\ eng' = [eng EXCEPT ![thr[t].id] = FailedConstruction(t)]
               /\ thr' = [thr EXCEPT ![t] = Returned(t, "create sing-box instance", "new")]
               /\ UNCHANGED box
    /\ UNCHANGED <<gor, done, callCount, obs>>

\* StartContext: box.New with pb.ctx and pb.config
StartNew(t) ==
    /\ thr[t].pc = "sc_new"
    /\ \E ok \in BOOLEAN :
          IF ok
          THEN /\ eng' = [eng EXCEPT ![thr[t].id] = NewEngine(t)]
               /\ thr' = [thr EXCEPT ![t].instance = thr[t].id, ![t].pc = "sc_spawn"]
          ELSE /\ eng' = [eng EXCEPT ![thr[t].id] = FailedConstruction(t)]
               /\ thr' = [thr EXCEPT ![t] = Returned(t, "create sing-box instance", "new")]
    /\ UNCHANGED <<box, gor, done, callCount, obs>>

\* StartContext: make(chan error, 1) and go func() { done <- instance.Start() }
StartSpawn(t) ==
    /\ thr[t].pc = "sc_spawn"
    /\ gor' = [gor EXCEPT ![thr[t].id] =
                  [kind |-> "start", eng |-> thr[t].instance, pc |-> "spawned", res |-> "nil"]]
    /\ thr' = [thr EXCEPT ![t].pc = "sc_select"]
    /\ UNCHANGED <<box, eng, done, callCount, obs>>

\* C7 mutant: on cancellation the half-started engine is not closed
StartSelectCancelNoClose(t) ==
    /\ thr[t].pc = "sc_select"
    /\ thr[t].ctx = "cancelled"
    /\ thr' = [thr EXCEPT ![t].pc = "sc_closing"]
    /\ UNCHANGED <<box, eng, gor, done, callCount, obs>>

\* StartContext: case <-ctx.Done(), up to the call of instance.Close()
StartSelectCancel(t) ==
    /\ thr[t].pc = "sc_select"
    /\ thr[t].ctx = "cancelled"
    /\ eng' = [eng EXCEPT ![thr[t].instance].closes = @ + 1]
    /\ thr' = [thr EXCEPT ![t].pc = "sc_closing"]
    /\ UNCHANGED <<box, gor, done, callCount, obs>>

\* StartContext: instance.Close() returns, then return ctx.Err()
StartCloseReturn(t) ==
    /\ thr[t].pc = "sc_closing"
    /\ thr' = [thr EXCEPT ![t] = Returned(t, "ctx", "select_ctx")]
    /\ UNCHANGED <<box, eng, gor, done, callCount, obs>>

\* what StartContext stores in pb.instance after a successful start
StartedHandle(t) == thr[t].instance

\* C2 mutant: the error instance.Start() returned is not looked at
StartSucceededAlways(res) == TRUE

\* StartContext: the condition err == nil on the received result
StartSucceeded(res) == res = "nil"

\* StartContext: case err := <-done, and what follows the select
StartSelectDone(t) ==
    /\ thr[t].pc = "sc_select"
    /\ done[thr[t].id] # <<>>
    /\ done' = [done EXCEPT ![thr[t].id] = Tail(@)]
    /\ IF ~StartSucceeded(Head(done[thr[t].id]))
       THEN /\ thr' = [thr EXCEPT ![t] = Returned(t, "start sing-box", "select_done")]
            /\ UNCHANGED box
       ELSE /\ box' = [box EXCEPT ![thr[t].box].instance = StartedHandle(t)]
            /\ thr' = [thr EXCEPT ![t] = Returned(t, "nil", "end")]
    /\ UNCHANGED <<eng, gor, callCount, obs>>

\* C5 mutant: Stop looks at the lifecycle context instead of the handle
NotStartedByCtx(b) == box[b].ctxCancelled

\* StopContext: the condition pb.instance == nil
NotStarted(b) == box[b].instance = NoEngine

\* StopContext: if pb.instance == nil
StopCheck(t) ==
    /\ thr[t].pc = "st_check"
    /\ thr' = [thr EXCEPT ![t] =
                  IF NotStarted(thr[t].box)
                  THEN Returned(t, "not started", "check")
                  ELSE [thr[t] EXCEPT !.pc = "st_precheck"]]
    /\ UNCHANGED <<box, eng, gor, done, callCount, obs>>

\* StopContext: the select with a default case before the handle is taken
StopPrecheck(t) ==
    /\ thr[t].pc = "st_precheck"
    /\ thr' = [thr EXCEPT ![t] =
                  IF thr[t].ctx = "cancelled"
                  THEN Returned(t, "ctx", "precheck")
                  ELSE [thr[t] EXCEPT !.pc = "st_take"]]
    /\ UNCHANGED <<box, eng, gor, done, callCount, obs>>

\* C8 mutant: the handle is not cleared before the close is spawned
ClearedHandleKept(t) == box[thr[t].box].instance

\* what StopContext leaves in pb.instance before it spawns the close
ClearedHandle(t) == NoEngine

\* C25 mutant: Stop takes any engine of the ProxyBox that is started and not
\* yet closed, whether or not pb.instance still refers to it
StopTakeAnyStarted(t) ==
    /\ thr[t].pc = "st_take"
    /\ \E e \in CallIds :
          /\ eng[e].box = thr[t].box
          /\ eng[e].status = "started"
          /\ eng[e].closes = 0
          /\ thr' = [thr EXCEPT ![t].instance = e, ![t].pc = "st_spawn"]
    /\ box' = [box EXCEPT ![thr[t].box].instance = ClearedHandle(t)]
    /\ UNCHANGED <<eng, gor, done, callCount, obs>>

\* StopContext: instance := pb.instance; pb.instance = nil
StopTake(t) ==
    /\ thr[t].pc = "st_take"
    /\ thr' = [thr EXCEPT ![t].instance = box[thr[t].box].instance, ![t].pc = "st_spawn"]
    /\ box' = [box EXCEPT ![thr[t].box].instance = ClearedHandle(t)]
    /\ UNCHANGED <<eng, gor, done, callCount, obs>>

\* StopContext: make(chan error, 1) and go func() { done <- instance.Close() }
StopSpawn(t) ==
    /\ thr[t].pc = "st_spawn"
    /\ gor' = [gor EXCEPT ![thr[t].id] =
                  [kind |-> "close", eng |-> thr[t].instance, pc |-> "spawned", res |-> "nil"]]
    /\ thr' = [thr EXCEPT ![t].pc = "st_select"]
    /\ UNCHANGED <<box, eng, done, callCount, obs>>

\* C3 mutant: on cancellation the handle is put back
StopSelectCancelRestores(t) ==
    /\ thr[t].pc = "st_select"
    /\ thr[t].ctx = "cancelled"
    /\ box' = [box EXCEPT ![thr[t].box].ctxCancelled = TRUE,
                          ![thr[t].box].instance = thr[t].instance]
    /\ thr' = [thr EXCEPT ![t] = Returned(t, "ctx", "select_ctx")]
    /\ UNCHANGED <<eng, gor, done, callCount, obs>>

\* StopContext: case <-ctx.Done(): pb.cancel(); return ctx.Err()
StopSelectCancel(t) ==
    /\ thr[t].pc = "st_select"
    /\ thr[t].ctx = "cancelled"
    /\ box' = [box EXCEPT ![thr[t].box].ctxCancelled = TRUE]
    /\ thr' = [thr EXCEPT ![t] = Returned(t, "ctx", "select_ctx")]
    /\ UNCHANGED <<eng, gor, done, callCount, obs>>

\* C10 mutant: one lifecycle context shared by every ProxyBox is cancelled
StopSelectDoneSharedCtx(t) ==
    /\ thr[t].pc = "st_select"
    /\ done[thr[t].id] # <<>>
    /\ done' = [done EXCEPT ![thr[t].id] = Tail(@)]
    /\ box' = [b \in Boxes |-> [box[b] EXCEPT !.ctxCancelled = box[b].exists]]
    /\ thr' = [thr EXCEPT ![t] = Returned(t, Head(done[thr[t].id]), "select_done")]
    /\ UNCHANGED <<eng, gor, callCount, obs>>

\* C12 mutant: a completed Stop drops the stored configuration and outbound
StopSelectDoneClearsConfig(t) ==
    /\ thr[t].pc = "st_select"
    /\ done[thr[t].id] # <<>>
    /\ done' = [done EXCEPT ![thr[t].id] = Tail(@)]
    /\ box' = [box EXCEPT ![thr[t].box].ctxCancelled = TRUE,
                          ![thr[t].box].config = NoConfig,
                          ![thr[t].box].outbound = NoOutbound]
    /\ thr' = [thr EXCEPT ![t] = Returned(t, Head(done[thr[t].id]), "select_done")]
    /\ UNCHANGED <<eng, gor, callCount, obs>>

\* StopContext: case err := <-done: pb.cancel(); return err
StopSelectDone(t) ==
    /\ thr[t].pc = "st_select"
    /\ done[thr[t].id] # <<>>
    /\ done' = [done EXCEPT ![thr[t].id] = Tail(@)]
    /\ box' = [box EXCEPT ![thr[t].box].ctxCancelled = TRUE]
    /\ thr' = [thr EXCEPT ![t] = Returned(t, Head(done[thr[t].id]), "select_done")]
    /\ UNCHANGED <<eng, gor, callCount, obs>>

\* the spawned goroutine enters instance.Start() or instance.Close()
GoCall(g) ==
    /\ gor[g].pc = "spawned"
    /\ gor' = [gor EXCEPT ![g].pc = "running"]
    /\ eng' = [eng EXCEPT ![gor[g].eng] =
                  IF gor[g].kind = "start"
                  THEN [@ EXCEPT !.status = "starting", !.starts = @ + 1]
                  ELSE [@ EXCEPT !.closes = @ + 1]]
    /\ UNCHANGED <<box, done, thr, callCount, obs>>

\* the engine call of the goroutine returns nil or an error
GoReturn(g) ==
    /\ gor[g].pc = "running"
    /\ \E res \in {"nil", "engine error"} :
          /\ gor' = [gor EXCEPT ![g].pc = "returned", ![g].res = res]
          /\ eng' = [eng EXCEPT ![gor[g].eng].status =
                        IF gor[g].kind = "start"
                        THEN (IF res = "nil" THEN "started" ELSE "failed")
                        ELSE @]
    /\ UNCHANGED <<box, done, thr, callCount, obs>>

\* C29 mutant: the result channel is unbuffered, so the send completes only
\* while the caller waits in the select that receives from it
GoSendUnbuffered(g) ==
    /\ gor[g].pc = "returned"
    /\ \E t \in Threads : thr[t].id = g /\ thr[t].pc \in {"sc_select", "st_select"}
    /\ done' = [done EXCEPT ![g] = Append(@, gor[g].res)]
    /\ gor' = [gor EXCEPT ![g].pc = "exited"]
    /\ UNCHANGED <<box, eng, thr, callCount, obs>>

\* the goroutine sends the result on its channel and ends
GoSend(g) ==
    /\ gor[g].pc = "returned"
    /\ Len(done[g]) < ChanCap
    /\ done' = [done EXCEPT ![g] = Append(@, gor[g].res)]
    /\ gor' = [gor EXCEPT ![g].pc = "exited"]
    /\ UNCHANGED <<box, eng, thr, callCount, obs>>


\* a caller enters FromSharedLink(link, cfg)
BeginFromSharedLink(t) ==
    /\ AtRest(t)
    /\ callCount < MaxCalls
    /\ \E b \in Boxes : ~box[b].exists
    /\ \E l \in SharedLinks, a \in ListenAddrs :
          thr' = [thr EXCEPT ![t] =
                [IdleThread EXCEPT !.op = "FromSharedLink",
                                   !.id = callCount + 1,
                                   !.pc = "fsl_parse",
                                   !.link = l,
                                   !.listen = a]]
    /\ callCount' = callCount + 1
    /\ UNCHANGED <<box, eng, gor, done, obs>>

\* FromSharedLink: the thread after Parse has returned r
AfterLinkParse(th, r) ==
    IF r.err # "nil"
    THEN [th EXCEPT !.pc = "returned", !.ret = "parse share link", !.site = "parse"]
    ELSE [th EXCEPT !.pc = "fsl_new", !.out = r.out]

\* FromSharedLink: outbound, err := Parse(link)
FromSharedLinkParse(t) ==
    /\ thr[t].pc = "fsl_parse"
    /\ thr' = [thr EXCEPT ![t] = AfterLinkParse(thr[t], Parse(thr[t].link))]
    /\ UNCHANGED <<box, eng, gor, done, callCount, obs>>

\* FromSharedLink: pb, err := NewProxyBox(...), then it enters pb.Start()
FromSharedLinkNew(t) ==
    /\ thr[t].pc = "fsl_new"
    /\ box' = [box EXCEPT ![NextBox] =
                  NewBoxValue([Outbound |-> thr[t].out, ListenAddr |-> thr[t].listen,
                               LogLevel |-> ""])]
    /\ thr' = [thr EXCEPT ![t].box = NextBox, ![t].pc = "sc_check"]
    /\ UNCHANGED <<eng, gor, done, callCount, obs>>

\* C9 mutant: the ProxyBox is returned whatever pb.Start() returned
ReturnedBoxAlways(t) == thr[t].box

\* the ProxyBox FromSharedLink returns after pb.Start() has returned err
ReturnedBox(t) == IF thr[t].ret = "nil" THEN thr[t].box ELSE NoBox

\* FromSharedLink: return nil, err or return pb, nil
FromSharedLinkReturn(t) ==
    /\ thr[t].pc = "fsl_started"
    /\ thr' = [thr EXCEPT ![t].pc = "returned", ![t].pb = ReturnedBox(t)]
    /\ box' = [b \in Boxes |-> [box[b] EXCEPT !.handed = @ \/ b = ReturnedBox(t)]]
    /\ UNCHANGED <<eng, gor, done, callCount, obs>>

\* a caller enters Parse(link)
BeginParse(t) ==
    /\ AtRest(t)
    /\ callCount < MaxCalls
    /\ \E i \in ParseInputs :
          thr' = [thr EXCEPT ![t] =
                [IdleThread EXCEPT !.op = "Parse",
                                   !.id = callCount + 1,
                                   !.pc = "ps_call",
                                   !.link = i.link,
                                   !.fill = i.fill]]
    /\ callCount' = callCount + 1
    /\ UNCHANGED <<box, eng, gor, done, obs>>

\* the link a caller of Parse gave: its text and the fill bytes after it
GivenLink(th) == th.link \o Repeat("a", th.fill)

\* the caller of Parse holds what it returned: the error, the text the
\* error names, and the outbound
AfterParse(th, r) ==
    [th EXCEPT !.pc = "returned", !.ret = r.err, !.detail = r.detail, !.out = r.out]

\* Parse returns the outbound and the error
ParseReturn(t) ==
    /\ thr[t].pc = "ps_call"
    /\ thr' = [thr EXCEPT ![t] = AfterParse(thr[t], Parse(GivenLink(thr[t])))]
    /\ UNCHANGED <<box, eng, gor, done, callCount, obs>>

\* Stop has taken the handle of ProxyBox b and the engine's Close has been
\* entered, or Stop has returned from the select that waits for it
TeardownBegun(b) ==
    \E t \in Threads :
        /\ thr[t].op \in {"Stop", "StopContext"}
        /\ thr[t].box = b
        /\ \/ /\ gor[thr[t].id].kind = "close"
              /\ gor[thr[t].id].pc \in {"running", "returned", "exited"}
           \/ /\ thr[t].pc = "returned"
              /\ thr[t].site \in {"select_ctx", "select_done"}

\* another thread calls IsRunning() on ProxyBox b; the observation keeps
\* what it returned and whether the teardown had begun when it ran
ObserveIsRunning(b) ==
    /\ box[b].handed
    /\ obs' = [box |-> b, running |-> IsRunning(b), teardown |-> TeardownBegun(b)]
    /\ UNCHANGED <<box, eng, gor, done, thr, callCount>>

\* NewProxyBox, once
FirstProxyBox(t) ==
    /\ ~box["pb1"].exists
    /\ NewProxyBox(t)

\* calls made one after the other by one owner, the goroutines running freely
Next ==
    \/ NewProxyBox("t1")
    \/ BeginStart("t1")
    \/ BeginStop("t1")
    \/ CancelCtx("t1")
    \/ StartCheck("t1")
    \/ StartPrecheck("t1")
    \/ StartNew("t1")
    \/ StartSpawn("t1")
    \/ StartSelectCancel("t1")
    \/ StartCloseReturn("t1")
    \/ StartSelectDone("t1")
    \/ StopCheck("t1")
    \/ StopPrecheck("t1")
    \/ StopTake("t1")
    \/ StopSpawn("t1")
    \/ StopSelectCancel("t1")
    \/ StopSelectDone("t1")
    \/ \E g \in CallIds : GoCall(g)
    \/ \E g \in CallIds : GoReturn(g)
    \/ \E g \in CallIds : GoSend(g)

Spec == Init /\ [][Next]_vars

\* FromSharedLink calls made one after the other by one owner
NextLink ==
    \/ BeginFromSharedLink("t1")
    \/ FromSharedLinkParse("t1")
    \/ FromSharedLinkNew("t1")
    \/ FromSharedLinkReturn("t1")
    \/ StartCheck("t1")
    \/ StartPrecheck("t1")
    \/ StartNew("t1")
    \/ StartSpawn("t1")
    \/ StartSelectDone("t1")
    \/ \E g \in CallIds : GoCall(g)
    \/ \E g \in CallIds : GoReturn(g)
    \/ \E g \in CallIds : GoSend(g)

SpecLink == Init /\ [][NextLink]_vars

\* Parse calls made one after the other
NextParse ==
    \/ BeginParse("t1")
    \/ ParseReturn("t1")

SpecParse == Init /\ [][NextParse]_vars

\* one ProxyBox driven by one owner, observed by a concurrent IsRunning()
NextObserved ==
    \/ FirstProxyBox("t1")
    \/ BeginStart("t1")
    \/ BeginStop("t1")
    \/ CancelCtx("t1")
    \/ StartCheck("t1")
    \/ StartPrecheck("t1")
    \/ StartNew("t1")
    \/ StartSpawn("t1")
    \/ StartSelectCancel("t1")
    \/ StartCloseReturn("t1")
    \/ StartSelectDone("t1")
    \/ StopCheck("t1")
    \/ StopPrecheck("t1")
    \/ StopTake("t1")
    \/ StopSpawn("t1")
    \/ StopSelectCancel("t1")
    \/ StopSelectDone("t1")
    \/ \E g \in CallIds : GoCall(g)
    \/ \E g \in CallIds : GoReturn(g)
    \/ \E g \in CallIds : GoSend(g)
    \/ \E b \in Boxes : ObserveIsRunning(b)

SpecObserved == Init /\ [][NextObserved]_vars

\* one ProxyBox shared by two callers that nothing serialises: every step
\* of StartContext and StopContext of either caller interleaves with the
\* steps of the other, since the lifecycle takes no lock
NextRace ==
    \/ FirstProxyBox("t1")
    \/ \E t \in Threads : Start(t)
    \/ \E t \in Threads : Stop(t)
    \/ \E t \in Threads : StartCheck(t)
    \/ \E t \in Threads : StartPrecheck(t)
    \/ \E t \in Threads : StartNew(t)
    \/ \E t \in Threads : StartSpawn(t)
    \/ \E t \in Threads : StartSelectDone(t)
    \/ \E t \in Threads : StopCheck(t)
    \/ \E t \in Threads : StopPrecheck(t)
    \/ \E t \in Threads : StopTake(t)
    \/ \E t \in Threads : StopSpawn(t)
    \/ \E t \in Threads : StopSelectDone(t)
    \/ \E g \in CallIds : GoCall(g)
    \/ \E g \in CallIds : GoReturn(g)
    \/ \E g \in CallIds : GoSend(g)

SpecRace == Init /\ [][NextRace]_vars

\* what the Go runtime guarantees to the lifecycle: the calling goroutine
\* takes its next step and a select with a ready case takes one, a spawned
\* goroutine is scheduled, and a send on a channel with room completes.
\* Nothing is assumed about the engine: instance.Start() and
\* instance.Close() may never return (GoReturn, StartCloseReturn), and the
\* caller decides when to call and when to cancel
Scheduling ==
    /\ WF_vars(StartCheck("t1"))
    /\ WF_vars(StartPrecheck("t1"))
    /\ WF_vars(StartNew("t1"))
    /\ WF_vars(StartSpawn("t1"))
    /\ WF_vars(StartSelectCancel("t1") \/ StartSelectDone("t1"))
    /\ WF_vars(StopCheck("t1"))
    /\ WF_vars(StopPrecheck("t1"))
    /\ WF_vars(StopTake("t1"))
    /\ WF_vars(StopSpawn("t1"))
    /\ WF_vars(StopSelectCancel("t1") \/ StopSelectDone("t1"))
    /\ \A g \in CallIds : WF_vars(GoCall(g))
    /\ \A g \in CallIds : WF_vars(GoSend(g))

\* the serialised lifecycle under the scheduling above
SpecLive == Spec /\ Scheduling

(***************************************************************************)
(* Properties                                                              *)
(***************************************************************************)

StartOps == {"Start", "StartContext"}

StopOps == {"Stop", "StopContext"}

\* the call of thread t has returned to its caller
HasReturned(t) == thr[t].pc = "returned"

\* the errors Start passes on from the engine
EngineStartErrors == {"create sing-box instance", "start sing-box"}

\* the calls before call id that reached box.New on ProxyBox b
EarlierStarts(b, id) == {c \in CallIds : c < id /\ eng[c].box = b /\ eng[c].status # "none"}

\* the latest call before call id that reached box.New on ProxyBox b failed
\* in box.New or in the engine's Start
LastStartFailed(b, id) ==
    /\ EarlierStarts(b, id) # {}
    /\ \E c \in EarlierStarts(b, id) :
          /\ \A d \in EarlierStarts(b, id) : d <= c
          /\ eng[c].status \in {"unbuilt", "failed"}

C2_HandleIffRunning ==
    /\ \A b \in Boxes :
          IsRunning(b) <=>
             \E e \in CallIds :
                /\ box[b].instance = e
                /\ eng[e].box = b
                /\ eng[e].status = "started"
                /\ eng[e].starts = 1
                /\ eng[e].closes = 0
    /\ \A t \in Threads :
          (thr[t].op = "NewProxyBox" /\ HasReturned(t))
             => ~IsRunning(thr[t].pb) /\ box[thr[t].pb].instance = NoEngine

\* a ProxyBox is running while another call's engine on it failed to start
C2_Witness ==
    \E b \in Boxes, e \in CallIds :
        /\ IsRunning(b)
        /\ eng[box[b].instance].status = "started"
        /\ eng[e].box = b
        /\ eng[e].status = "failed"

\* C3 as stated: whenever Stop or StopContext was invoked on a Running
\* ProxyBox, the ProxyBox is Idle when the call returns, whatever it returns.
C3_Original ==
    \A t \in Threads :
        (thr[t].op \in StopOps /\ HasReturned(t) /\ thr[t].entry # NoEngine)
           => ~IsRunning(thr[t].box)

\* C3 amended: a Stop or StopContext invoked on a Running ProxyBox whose
\* context is not cancelled at the entry check leaves the ProxyBox Idle when
\* it returns nil, the close error or the cancellation error; when the
\* context is already cancelled at the entry check, StopContext returns the
\* cancellation error, invokes no Close and the ProxyBox keeps its handle.
C3_StopClearsUnlessPrecancelled ==
    \A t \in Threads :
        (thr[t].op \in StopOps /\ HasReturned(t) /\ thr[t].entry # NoEngine)
           => IF thr[t].site = "precheck"
              THEN /\ thr[t].ret = "ctx"
                   /\ box[thr[t].box].instance = thr[t].entry
                   /\ gor[thr[t].id].kind = "none"
                   /\ eng[thr[t].entry].closes = 0
              ELSE /\ thr[t].ret \in {"nil", "engine error", "ctx"}
                   /\ ~IsRunning(thr[t].box)
                   /\ box[thr[t].box].instance = NoEngine

\* StopContext has returned the cancellation error after it took the handle
C3_Witness ==
    \E t \in Threads :
        /\ thr[t].op = "StopContext" /\ HasReturned(t)
        /\ thr[t].entry # NoEngine
        /\ thr[t].site = "select_ctx"
        /\ thr[t].ret = "ctx"
        /\ ~IsRunning(thr[t].box)

\* C4: Start or StartContext on a Running ProxyBox returns the
\* already-started error, constructs no engine, spawns nothing, and the
\* handle is still the engine of the first Start, started once, not closed.
C4_DoubleStartRejected ==
    \A t \in Threads :
        (thr[t].op \in StartOps /\ HasReturned(t) /\ thr[t].entry # NoEngine)
           => /\ thr[t].ret = "already started"
              /\ eng[thr[t].id].status = "none"
              /\ gor[thr[t].id].kind = "none"
              /\ box[thr[t].box].instance = thr[t].entry
              /\ eng[thr[t].entry].status = "started"
              /\ eng[thr[t].entry].starts = 1
              /\ eng[thr[t].entry].closes = 0

\* StartContext with a cancelled context was refused on a Running ProxyBox
C4_Witness ==
    \E t \in Threads :
        /\ thr[t].op = "StartContext" /\ HasReturned(t)
        /\ thr[t].ctx = "cancelled"
        /\ thr[t].entry # NoEngine
        /\ thr[t].ret = "already started"

\* C5: Stop or StopContext on an Idle ProxyBox returns the not-started
\* error, spawns no close and leaves the ProxyBox Idle.
C5_StopWhenIdleRejected ==
    \A t \in Threads :
        (thr[t].op \in StopOps /\ HasReturned(t) /\ thr[t].entry = NoEngine)
           => /\ thr[t].ret = "not started"
              /\ gor[thr[t].id].kind = "none"
              /\ ~IsRunning(thr[t].box)

\* a second Stop after a Stop that closed the engine was refused
C5_Witness ==
    \E t \in Threads, e \in CallIds :
        /\ thr[t].op \in StopOps /\ HasReturned(t)
        /\ thr[t].ret = "not started"
        /\ box[thr[t].box].ctxCancelled
        /\ eng[e].box = thr[t].box
        /\ eng[e].closes = 1

\* C6: when box.New or the engine's Start fails, Start returns the error and
\* the ProxyBox is Idle with no handle; a Start that follows a failed one is
\* not refused as already started and, unless its context is cancelled at
\* the entry check, calls box.New again.
C6_FailedStartLeavesIdle ==
    \A t \in Threads :
        /\ (thr[t].op \in StartOps /\ HasReturned(t) /\ thr[t].ret \in EngineStartErrors)
              => /\ ~IsRunning(thr[t].box)
                 /\ box[thr[t].box].instance = NoEngine
                 /\ eng[thr[t].id].status \in {"unbuilt", "failed"}
        /\ (/\ thr[t].op \in StartOps
            /\ HasReturned(t)
            /\ LastStartFailed(thr[t].box, thr[t].id))
              => /\ thr[t].ret # "already started"
                 /\ (thr[t].site # "precheck" => eng[thr[t].id].status # "none")

\* a Start after a failed Start has constructed and started a fresh engine
C6_Witness ==
    \E t \in Threads :
        /\ thr[t].op \in StartOps /\ HasReturned(t)
        /\ LastStartFailed(thr[t].box, thr[t].id)
        /\ thr[t].ret = "nil"
        /\ IsRunning(thr[t].box)

\* C7: when StartContext returns the context's error the ProxyBox is Idle,
\* and the engine the call constructed, if any, has had Close invoked.
C7_CancelledStartClosesEngine ==
    \A t \in Threads :
        (thr[t].op = "StartContext" /\ HasReturned(t) /\ thr[t].ret = "ctx")
           => /\ ~IsRunning(thr[t].box)
              /\ (thr[t].site = "precheck" => eng[thr[t].id].status = "none")
              /\ (thr[t].site # "precheck" =>
                     eng[thr[t].id].status # "none" /\ eng[thr[t].id].closes >= 1)

\* the cancellation was observed after the engine's Start had succeeded
C7_Witness ==
    \E t \in Threads :
        /\ thr[t].op = "StartContext" /\ HasReturned(t) /\ thr[t].ret = "ctx"
        /\ eng[thr[t].id].status = "started"
        /\ eng[thr[t].id].closes = 1
        /\ ~IsRunning(thr[t].box)

ReportedListenAddr(t) == ListenAddrOf(box[thr[t].pb].config)

\* a listen address written as an IPv4 literal, ':' and a port in plain
\* decimal (no sign, no leading zero) within [1,65535]
IsPlainIPv4Port(a) ==
    /\ Len(Split(a, <<":">>)) = 2
    /\ ParseAddr(Split(a, <<":">>)[1]).ok
    /\ Split(a, <<":">>)[2] # <<>>
    /\ \A j \in 1..Len(Split(a, <<":">>)[2]) : IsDigit(Split(a, <<":">>)[2][j])
    /\ Split(a, <<":">>)[2][1] # "0"
    /\ DecimalValue(Split(a, <<":">>)[2]) \in 1..MaxPort

C10_InstancesIndependent ==
    [][\A t \in Threads, b \in Boxes :
          (thr[t].box # b /\ ~AtRest(t) /\ thr'[t] # thr[t] /\ box[b].exists)
             => /\ box'[b] = box[b]
                /\ \A e \in CallIds : eng[e].box = b => eng'[e] = eng[e]]_vars

\* both ProxyBox instances are Running, each with an engine of its own
C10_Witness ==
    /\ IsRunning("pb1")
    /\ IsRunning("pb2")
    /\ box["pb1"].instance # box["pb2"].instance

\* the outbounds the callers of NewProxyBox hand in
GivenOutbounds == {cfg.Outbound : cfg \in ProxyBoxConfigs}

C12_ConfigFrame ==
    [][\A b \in Boxes :
          box[b].exists => /\ box'[b].config = box[b].config
                           /\ box'[b].outbound = box[b].outbound]_vars

\* a ProxyBox that was started and stopped still holds the configuration
\* assembled for the address it was created with
C12_Witness ==
    \E t \in Threads :
        /\ thr[t].op \in StopOps /\ HasReturned(t)
        /\ thr[t].site = "select_done"
        /\ box[thr[t].box].outbound \in GivenOutbounds
        /\ Len(box[thr[t].box].config.Outbounds) = 3
        /\ box[thr[t].box].config.Outbounds[1] = box[thr[t].box].outbound

\* the listen address NewProxyBox works on for call t: the default when the
\* caller gave none
EffectiveListenAddr(t) ==
    IF thr[t].listen = <<>> THEN DefaultListenAddr ELSE thr[t].listen

\* call t is a FromSharedLink whose NewProxyBox has created a ProxyBox
CreatedBox(t) == thr[t].op = "FromSharedLink" /\ thr[t].box # NoBox

\* C13: ListenAddr() of a ProxyBox created with a listen address written as
\* an IPv4 literal, ':' and a decimal port in [1,65535] returns that string;
\* created with an empty listen address it returns 127.0.0.1:1080.
C13_ListenAddrRoundTrip ==
    \A t \in Threads :
        CreatedBox(t) =>
           /\ (thr[t].listen = <<>> =>
                  ListenAddrOf(box[thr[t].box].config) = Chars("127.0.0.1:1080"))
           /\ (IsPlainIPv4Port(thr[t].listen) =>
                  ListenAddrOf(box[thr[t].box].config) = thr[t].listen)

\* a ProxyBox created for 0.0.0.0:65535 reports 0.0.0.0:65535
C13_Witness ==
    \E t \in Threads :
        /\ CreatedBox(t)
        /\ thr[t].listen = AddrTopPort
        /\ IsPlainIPv4Port(thr[t].listen)
        /\ ListenAddrOf(box[thr[t].box].config) = Chars("0.0.0.0:65535")

\* the text between the brackets of a listen address [host]:port
BracketedHost(a) ==
    IF HasPrefix(a, <<"[">>) /\ Index(a, <<"]">>) # -1
    THEN SubSeq(a, 2, Index(a, <<"]">>))
    ELSE <<>>

\* a compressed or full IPv6 literal: hexadecimal groups and colons
IsIPv6Literal(h) ==
    /\ Len(h) >= 2
    /\ \A j \in 1..Len(h) : IsHex(h[j]) \/ h[j] = ":"
    /\ Cardinality({j \in 1..Len(h) : h[j] = ":"}) \in 2..7

\* C14 as stated: the inbound of the created ProxyBox listens on the host
\* of the listen address when that host is an IPv4 literal or a bracketed
\* IPv6 literal, and on 127.0.0.1 when it is neither.
C14_Original ==
    \A t \in Threads :
        CreatedBox(t) =>
           IF ParseAddr(Split(EffectiveListenAddr(t), <<":">>)[1]).ok
           THEN AddrString(box[thr[t].box].config.Inbounds[1].Listen) =
                   Split(EffectiveListenAddr(t), <<":">>)[1]
           ELSE IF IsIPv6Literal(BracketedHost(EffectiveListenAddr(t)))
           THEN AddrString(box[thr[t].box].config.Inbounds[1].Listen) =
                   BracketedHost(EffectiveListenAddr(t))
           ELSE box[thr[t].box].config.Inbounds[1].Listen = Loopback

(***************************************************************************)
(* Share-link decoding (SpecParse)                                         *)
(***************************************************************************)

\* Parse has returned to thread t
ParseReturned(t) == thr[t].op = "Parse" /\ thr[t].pc = "returned"

\* Parse has returned an outbound and no error to thread t
Decoded(t) == ParseReturned(t) /\ thr[t].ret = "nil"

\* the link thread t gave to Parse, without the surrounding whitespace
TrimmedLink(t) == TrimSpace(GivenLink(thr[t]))

\* C15 as stated: every successful decode, of whatever protocol, yields a
\* server port between 1 and 65535.
C15_Original ==
    \A t \in Threads : Decoded(t) => thr[t].out.ServerPort \in 1..MaxPort

\* a Shadowsocks link whose body holds no '@' and decodes, as base64, to a
\* string that holds no '@' either
DecodesToNoAt(link) ==
    /\ HasPrefix(link, SSPrefix)
    /\ Index(SSBody(link), <<"@">>) = -1
    /\ SSDecodeBody(SSBody(link)).ok
    /\ Index(SSDecodeBody(SSBody(link)).str, <<"@">>) = -1

\* C16 as stated: a Shadowsocks link with no '@' is decoded and parsed
\* again at most once, so a link whose decoded body again holds no '@'
\* never decodes successfully.
C16_Original ==
    \A t \in Threads :
        ParseReturned(t) /\ DecodesToNoAt(TrimmedLink(t)) => thr[t].ret # "nil"

\* C17 as stated: the tag of a decoded Shadowsocks link, in any of its
\* three forms, is the text after '#' when that is not empty, and "proxy"
\* only when the link has no fragment.
C17_Original ==
    \A t \in Threads :
        Decoded(t) /\ HasPrefix(TrimmedLink(t), SSPrefix) =>
            thr[t].out.Tag = IF SSFragment(TrimmedLink(t)) # <<>>
                             THEN SSFragment(TrimmedLink(t))
                             ELSE Chars("proxy")

\* the outbound type of the scheme a link starts with, "" for a link of no
\* supported scheme
SchemeType(link) ==
    IF HasPrefix(link, Chars("vless://")) THEN "vless"
    ELSE IF HasPrefix(link, Chars("vmess://")) THEN "vmess"
    ELSE IF HasPrefix(link, Chars("ss://")) THEN "shadowsocks"
    ELSE IF HasPrefix(link, Chars("trojan://")) THEN "trojan"
    ELSE IF HasPrefix(link, Chars("socks://")) \/ HasPrefix(link, Chars("socks5://")) THEN "socks"
    ELSE IF HasPrefix(link, Chars("http://")) \/ HasPrefix(link, Chars("https://")) THEN "http"
    ELSE ""

\* name is the text of link before its first "://", the whole link when it
\* holds none
NamesScheme(name, link) ==
    IF Index(link, Chars("://")) = -1 THEN name = link
    ELSE HasPrefix(link, name \o Chars("://")) /\ Index(name, Chars("://")) = -1

\* what Parse returned in th agrees with the scheme of the trimmed link
DispatchedByScheme(th, link) ==
    IF SchemeType(link) = ""
    THEN /\ th.ret = "unsupported protocol"
         /\ NamesScheme(th.detail, link)
         /\ th.out = NoOutbound
    ELSE /\ th.ret # "unsupported protocol"
         /\ th.ret = "nil" => th.out.Type = SchemeType(link)

\* C18: for a link within the size limit, Parse looks at the link without
\* its surrounding white space; a link that starts with a supported scheme
\* goes to that scheme's parser, whose outbound has the scheme's type, and
\* any other link returns the unsupported-protocol error that names the
\* text before "://", with no outbound.
C18_DispatchByScheme ==
    \A t \in Threads :
        ParseReturned(t) /\ Len(TrimmedLink(t)) <= MaxShareLinkLength =>
            DispatchedByScheme(thr[t], TrimmedLink(t))

\* a link given between white space was rejected as of protocol "ftp"
C18_Witness ==
    \E t \in Threads :
        /\ ParseReturned(t)
        /\ GivenLink(thr[t]) # TrimmedLink(t)
        /\ thr[t].ret = "unsupported protocol"
        /\ thr[t].detail = Chars("ftp")

\* C19: Parse returns the link-too-long error, and no outbound, for every
\* link of more than 65536 bytes (white space around the link not counted),
\* whatever its scheme and however valid its content, and for no link of
\* 65536 bytes or fewer.
C19_SizeLimit ==
    \A t \in Threads :
        ParseReturned(t) =>
           /\ Len(TrimmedLink(t)) > 65536 <=> thr[t].ret = "share link too long"
           /\ Len(TrimmedLink(t)) > 65536 => thr[t].out = NoOutbound

\* a link of a supported scheme, one byte over the limit, was rejected for
\* its size
C19_Witness ==
    \E t \in Threads :
        /\ ParseReturned(t)
        /\ Len(TrimmedLink(t)) = 65537
        /\ SchemeType(TrimmedLink(t)) # ""
        /\ thr[t].ret = "share link too long"

\* number of hexadecimal digits among the first n characters of u
HexDigitsBefore(u, n) == Cardinality({j \in 1..n : IsHex(u[j])})

\* u is 32 hexadecimal digits in groups of 8, 4, 4, 4 and 12, with at most
\* one dash between two groups and no dash anywhere else
IsCanonicalUUID(u) ==
    /\ \A j \in 1..Len(u) : IsHex(u[j]) \/ u[j] = "-"
    /\ HexDigitsBefore(u, Len(u)) = 32
    /\ \A j \in 1..Len(u) :
          u[j] = "-" => /\ HexDigitsBefore(u, j) \in {8, 12, 16, 20}
                        /\ u[j - 1] # "-"

\* what Parse returned in th for a link whose UUID is uuid; readable says
\* that the parser got as far as looking at the UUID
UUIDRule(th, readable, uuid, missing, invalid) ==
    /\ th.ret = "nil" => th.out.UUID = uuid /\ IsCanonicalUUID(uuid)
    /\ readable /\ uuid = <<>> => th.ret = missing
    /\ readable /\ uuid # <<>> /\ ~IsCanonicalUUID(uuid) => th.ret = invalid

\* the rule for a VLESS link that url.Parse read as u
VLESSUUIDRule(th, u) ==
    UUIDRule(th, u.ok, Username(u),
             "missing UUID in VLESS link", "invalid UUID format in VLESS link")

\* the rule for a VMess link whose text decodes to the JSON object json
VMessUUIDRule(th, json) ==
    UUIDRule(th, json.ok /\ json.cfg[Chars("add")] # <<>>, json.cfg[Chars("id")],
             "missing UUID in VMess link", "invalid UUID format in VMess link")

\* the UUID rule for what Parse returned in th for the trimmed link
UUIDRuleOfLink(th, link) ==
    /\ SchemeType(link) = "vless" => VLESSUUIDRule(th, URLParse(link))
    /\ SchemeType(link) = "vmess" =>
           VMessUUIDRule(th, JSONUnmarshal(VMessDecode(TrimPrefix(link, VMessPrefix)).str))

ExpectedFingerprint(fp) == IF fp = <<>> THEN Chars("chrome") ELSE fp

\* the Reality options of the outbound in th agree with the parameters
\* security, pbk, sid and fp of the link
RealityOptions(th, security, pbk, sid, fp) ==
    /\ th.out.TLS.Reality.Enabled <=> security = Chars("reality") /\ pbk # <<>>
    /\ th.out.TLS.Reality.Enabled =>
          /\ th.out.TLS.Reality.PublicKey = pbk
          /\ th.out.TLS.Reality.ShortID = sid
          /\ th.out.TLS.Enabled
          /\ th.out.TLS.UTLS.Enabled
          /\ th.out.TLS.UTLS.Fingerprint = ExpectedFingerprint(fp)

\* what Parse returned in th for a VLESS link with the given query; wellFormed
\* says that the link has a valid UUID and a server
RealityRule(th, query, wellFormed) ==
    /\ th.ret = "nil" =>
          RealityOptions(th, QueryGet(query, Chars("security")), QueryGet(query, Chars("pbk")),
                         QueryGet(query, Chars("sid")), QueryGet(query, Chars("fp")))
    /\ /\ wellFormed
       /\ QueryGet(query, Chars("security")) = Chars("reality")
       /\ QueryGet(query, Chars("pbk")) = <<>>
       => th.ret = "missing public key (pbk) for Reality in VLESS link"

\* the rule for a VLESS link that url.Parse read as u
RealityRuleOfURL(th, u) ==
    RealityRule(th, u.RawQuery,
                u.ok /\ IsCanonicalUUID(Username(u)) /\ Hostname(u.Host) # <<>>)

\* C21: a decoded VLESS outbound has Reality options exactly when the link
\* says security=reality and gives a non-empty pbk; then they hold pbk and
\* sid, and uTLS is enabled with the fingerprint fp, "chrome" when fp is
\* absent or empty.  A link with a valid UUID and a server that says
\* security=reality without a pbk gets the missing-public-key error.
C21_RealityOptions ==
    \A t \in Threads :
        ParseReturned(t) /\ SchemeType(TrimmedLink(t)) = "vless"
                         /\ Len(TrimmedLink(t)) <= MaxShareLinkLength =>
            RealityRuleOfURL(thr[t], URLParse(TrimmedLink(t)))

\* a VLESS link was decoded with Reality, a short id and the fingerprint
\* its fp parameter names
C21_Witness ==
    \E t \in Threads :
        /\ Decoded(t)
        /\ thr[t].out.Type = "vless"
        /\ thr[t].out.TLS.Reality.Enabled
        /\ thr[t].out.TLS.Reality.ShortID = Chars("ab")
        /\ thr[t].out.TLS.UTLS.Fingerprint = Chars("firefox")

\* the body that holds the '@' of a Shadowsocks link: the body of the link,
\* or what the body decodes to when the whole of it is base64
SSInnerBody(body) ==
    IF Index(body, <<"@">>) # -1 THEN body
    ELSE IF SSDecodeBody(body).ok THEN SSBody(SSPrefix \o SSDecodeBody(body).str)
    ELSE <<>>

\* the text of the port in server:port or [server]:port, empty if absent
SSPortText(serverInfo) ==
    IF HasPrefix(serverInfo, <<"[">>)
    THEN IF LastIndex(serverInfo, <<"]", ":">>) # -1
         THEN SliceFrom(serverInfo, LastIndex(serverInfo, <<"]", ":">>) + 2)
         ELSE <<>>
    ELSE IF Len(Split(serverInfo, <<":">>)) > 1 THEN Split(serverInfo, <<":">>)[2]
    ELSE <<>>

\* text is a decimal number: digits only, at least one
AllDigits(text) == text # <<>> /\ \A j \in 1..Len(text) : IsDigit(text[j])

\* the ports the claim allows for a port text: the number itself when the
\* text is a decimal number between 1 and 65535; 8388 when it is another
\* decimal number, a negative one, empty, or does not start like a number;
\* for any other text the claim says nothing beyond the range
ExpectedSSPorts(text) ==
    IF AllDigits(text)
    THEN IF DecimalValue(text) \in 1..MaxPort THEN {DecimalValue(text)} ELSE {8388}
    ELSE IF text = <<>> \/ (~IsDigit(text[1]) /\ text[1] \notin {"+", " ", "\t", "\n", "\r"})
    THEN {8388}
    ELSE 1..MaxPort

\* what Parse returned in th for a Shadowsocks link whose inner body is
\* userinfo@serverInfo, with a method and a server
SSPortRule(th, userInfo, serverInfo) ==
    SSMethod(userInfo) # <<>> /\ SSServer(serverInfo) # <<>> =>
        /\ th.ret = "nil"
        /\ th.out.ServerPort \in ExpectedSSPorts(SSPortText(serverInfo))

\* the rule applied to the inner body of a link, when it has one
SSPortRuleOfBody(th, inner) ==
    Index(inner, <<"@">>) # -1 =>
        SSPortRule(th, SSUserInfo(inner), Split(inner, <<"@">>)[2])

\* C22: a Shadowsocks link with a method and a server, given plainly, with a
\* base64 userinfo or base64-encoded as a whole, is decoded without error;
\* its port is the one written when that is a number between 1 and 65535,
\* and 8388 when the port is absent, not a number or outside that range.
C22_ShadowsocksPort ==
    \A t \in Threads :
        ParseReturned(t) /\ SchemeType(TrimmedLink(t)) = "shadowsocks"
                         /\ Len(TrimmedLink(t)) <= MaxShareLinkLength =>
            SSPortRuleOfBody(thr[t], SSInnerBody(SSBody(TrimmedLink(t))))

\* the link with port 99999 was decoded with port 8388
C22_Witness ==
    \E t \in Threads :
        /\ Decoded(t)
        /\ TrimmedLink(t) = SSPrefix \o Chars("aes-256-gcm:pw@h:99999")
        /\ thr[t].out.ServerPort = 8388

\* the text of the port in a URL's host[:port], empty if there is none
AuthorityPortText(host) ==
    IF LastIndex(host, <<":">>) = -1 \/ host[Len(host)] = "]" THEN <<>>
    ELSE SliceFrom(host, LastIndex(host, <<":">>) + 1)

\* the port the claim gives a link whose port text is text
ExpectedHTTPPort(text, default) ==
    IF AllDigits(text) /\ DecimalValue(text) \in 1..MaxPort
    THEN DecimalValue(text)
    ELSE default

\* the outbound in th is the one the claim describes for a link of scheme
\* https (or http) with the given host[:port]
HTTPRule(th, https, host) ==
    /\ th.out.Type = "http"
    /\ th.out.ServerPort =
          ExpectedHTTPPort(AuthorityPortText(host), IF https THEN 443 ELSE 80)
    /\ th.out.TLS.Enabled <=> https
    /\ th.out.TLS.ServerName = <<>>

\* C23: a decoded http:// or https:// link has the port written in its
\* authority when that is between 1 and 65535, otherwise 80 for http and
\* 443 for https; TLS is enabled exactly for https, with no server name.
C23_HTTPPortAndTLS ==
    \A t \in Threads :
        Decoded(t) /\ SchemeType(TrimmedLink(t)) = "http" =>
            HTTPRule(thr[t], HasPrefix(TrimmedLink(t), Chars("https://")),
                     URLParse(TrimmedLink(t)).Host)

\* an https link with an out-of-range port was decoded with port 443 and
\* TLS enabled
C23_Witness ==
    \E t \in Threads :
        /\ Decoded(t)
        /\ TrimmedLink(t) = Chars("https://h:65536")
        /\ thr[t].out.ServerPort = 443
        /\ thr[t].out.TLS.Enabled

\* the errors of the validation failures the parsers report
ValidationErrors ==
    {"unsupported protocol", "share link too long", "url parse error",
     "missing UUID in VLESS link", "invalid UUID format in VLESS link",
     "missing server in VLESS link", "missing public key (pbk) for Reality in VLESS link",
     "invalid base64 encoding in VMess link", "invalid JSON in VMess link",
     "missing server address in VMess link", "missing UUID in VMess link",
     "invalid UUID format in VMess link",
     "too many levels of base64 encoding in Shadowsocks link",
     "invalid base64 encoding in Shadowsocks link", "missing server in Shadowsocks link",
     "missing method in Shadowsocks link", "missing password in Trojan link",
     "missing server in Trojan link", "missing server in SOCKS link",
     "missing server in HTTP link"}

\* C24: whenever Parse returns an error it returns the zero outbound with
\* it (no type, no tag, no options), and the error is one of the
\* validation failures; an outbound is returned only with a nil error.
C24_NoPartialOutbound ==
    \A t \in Threads :
        ParseReturned(t) /\ thr[t].ret # "nil" =>
            thr[t].out = NoOutbound /\ thr[t].ret \in ValidationErrors

\* a VMess link with bad JSON was rejected, with the zero outbound
C24_Witness ==
    \E t \in Threads :
        /\ ParseReturned(t)
        /\ thr[t].ret = "invalid JSON in VMess link"
        /\ thr[t].out = NoOutbound

\* ---- C25: two unserialised Starts on one ProxyBox ----

\* engine e was started by a Start that has returned, pb.instance of its
\* ProxyBox does not refer to it, no Stop has taken it and nothing closed it
Orphaned(e) ==
    /\ eng[e].status = "started"
    /\ eng[e].closes = 0
    /\ box[eng[e].box].instance # e
    /\ \A t \in Threads : thr[t].id = e => thr[t].pc = "returned"
    /\ \A t \in Threads : thr[t].instance # e
    /\ \A g \in CallIds : gor[g].kind = "close" => gor[g].eng # e

\* C25: with two callers that nothing serialises, an engine that was started
\* and whose handle pb.instance no longer holds (the other Start overwrote it)
\* stays that way for ever: no later Stop takes it and nothing closes it
C25_OrphanNeverClosed ==
    [][\A e \in CallIds : Orphaned(e) => Orphaned(e)']_vars

\* C25 witness: two Starts on the same ProxyBox both passed the check and both
\* started an engine; a later Stop closed the one pb.instance held and
\* returned nil, the ProxyBox is Idle, and the other engine is still open
C25_Witness ==
    \E e1 \in CallIds, e2 \in CallIds, s \in CallIds :
        /\ e1 # e2
        /\ eng[e1].box = eng[e2].box
        /\ Orphaned(e1)
        /\ eng[e1].starts = 1
        /\ eng[e2].status = "started"
        /\ eng[e2].closes = 1
        /\ gor[s].kind = "close"
        /\ gor[s].eng = e2
        /\ gor[s].pc = "exited"
        /\ box[eng[e1].box].instance = NoEngine
        /\ \E t \in Threads :
              /\ thr[t].id = s
              /\ thr[t].op = "Stop"
              /\ thr[t].pc = "returned"
              /\ thr[t].ret = "nil"

\* ---- C26: cancellation while the engine operation is outstanding ----

\* the context of the call of thread t is cancelled while the call waits in
\* the select of StopContext for the spawned Close
StopCancelledInSelect(t) ==
    /\ thr[t].pc = "st_select"
    /\ thr[t].ctx = "cancelled"

\* the context of the call of thread t is cancelled while the call waits in
\* the select of StartContext for the spawned Start
StartCancelledInSelect(t) ==
    /\ thr[t].pc = "sc_select"
    /\ thr[t].ctx = "cancelled"

\* the call of thread t has returned
CallReturned(t) == thr[t].pc = "returned"

\* C26, StopContext: once the context is cancelled in the select, StopContext
\* returns, whether or not the engine's Close ever completes
C26_StopReturnsOnCancel ==
    StopCancelledInSelect("t1") ~> CallReturned("t1")

\* C26 as stated: once the context is cancelled in the select, StopContext
\* returns even if the engine's Close never completes, and StartContext
\* returns even if the engine's Start never returns and without waiting for
\* the Close it calls on the half-started engine
C26_Original ==
    /\ StopCancelledInSelect("t1") ~> CallReturned("t1")
    /\ StartCancelledInSelect("t1") ~> CallReturned("t1")

\* ---- C27: the lifecycle context handed to box.New ----

\* box.New constructed an engine for call e
Constructed(e) == eng[e].status \in {"new", "starting", "started", "failed"}

\* C27 as stated: every engine box.New constructs is given a lifecycle
\* context that is not cancelled at that moment, also when the Start follows
\* a completed Stop on the same ProxyBox
C27_Original ==
    \A e \in CallIds : Constructed(e) => eng[e].ctxLive

\* C27, what the code does: the context handed to box.New is pb.ctx, made
\* once by NewProxyBox, so an engine gets a cancelled context exactly when a
\* Stop on its ProxyBox ran pb.cancel() before the engine was constructed
C27_ContextCancelledOnlyByStop ==
    \A e \in CallIds :
        (Constructed(e) /\ ~eng[e].ctxLive) => box[eng[e].box].ctxCancelled

\* ---- C28: engines the lifecycle has constructed and not closed ----

\* the lifecycle has called Close on engine e, inline in StartContext or by
\* spawning the goroutine of StopContext that calls it
CloseIssued(e) ==
    \/ eng[e].closes > 0
    \/ \E g \in CallIds : gor[g].kind = "close" /\ gor[g].eng = e

\* the engines of ProxyBox b that box.New constructed and on which the
\* lifecycle has not called Close
OpenEngines(b) ==
    {e \in CallIds : eng[e].box = b /\ Constructed(e) /\ ~CloseIssued(e)}

\* C28 as stated: under serialised calls a ProxyBox never has more than one
\* engine that is constructed and not yet closed by the lifecycle
C28_Original ==
    \A b \in Boxes : Cardinality(OpenEngines(b)) <= 1

\* C28, what the code keeps: of the engines of a ProxyBox that are constructed
\* and not closed by the lifecycle, at most one did not fail to start; the
\* others are engines whose Start returned an error
C28_AtMostOneOpenNotFailed ==
    \A b \in Boxes :
        Cardinality({e \in OpenEngines(b) : eng[e].status # "failed"}) <= 1

\* ---- C29: the goroutine's send on the result channel ----

\* the caller of call g has left the select on cancellation, so nothing will
\* receive from the channel of call g any more
CallerGone(g) ==
    \A t \in Threads :
        thr[t].id = g => (thr[t].pc \in {"sc_closing", "returned"})

\* C29: whenever the engine call of a spawned goroutine has returned, its
\* send on the result channel can be taken at once, whether or not the caller
\* still waits, and the channel never holds more than the one result
C29_SendNeverBlocks ==
    \A g \in CallIds :
        /\ gor[g].pc = "returned" => ENABLED GoSend(g)
        /\ Len(done[g]) <= ChanCap

\* C29 witness: a StartContext and a StopContext both returned on
\* cancellation; afterwards the engine call of each spawned goroutine
\* returned, the goroutine sent its result and ended, and each result stays
\* in its channel because nobody receives it
C29_Witness ==
    \E g1 \in CallIds, g2 \in CallIds :
        /\ gor[g1].kind = "start"
        /\ gor[g2].kind = "close"
        /\ gor[g1].pc = "exited"
        /\ gor[g2].pc = "exited"
        /\ Len(done[g1]) = 1
        /\ Len(done[g2]) = 1
        /\ eng[g1].closes > 0
        /\ CallerGone(g1)
        /\ CallerGone(g2)
        /\ \E t \in Threads :
              /\ thr[t].id = g2
              /\ thr[t].pc = "returned"
              /\ thr[t].site = "select_ctx"

\* ---- C30: StartContext with a context that is already cancelled ----

\* thread t is in StartContext at position pc with its context cancelled, and
\* takes its next step
CancelledStartStep(t, pc) ==
    /\ thr[t].op = "StartContext"
    /\ thr[t].pc = pc
    /\ thr[t].ctx = "cancelled"
    /\ thr'[t] # thr[t]

\* C30: a StartContext whose context is cancelled when it is called returns
\* "proxy box already started" from the first check when the ProxyBox is
\* Running; when the ProxyBox is Idle it passes that check and returns the
\* context's error from the select before box.New, with no engine constructed
\* or started and the ProxyBox left Idle
C30_PrecancelledStart ==
    [][\A t \in Threads :
          /\ (CancelledStartStep(t, "sc_check") /\ IsRunning(thr[t].box)) =>
                /\ thr'[t].pc = "returned"
                /\ thr'[t].ret = "already started"
                /\ UNCHANGED <<box, eng, gor>>
          /\ (CancelledStartStep(t, "sc_check") /\ ~IsRunning(thr[t].box)) =>
                /\ thr'[t].pc = "sc_precheck"
                /\ thr'[t].ctx = "cancelled"
          /\ CancelledStartStep(t, "sc_precheck") =>
                /\ thr'[t].pc = "returned"
                /\ thr'[t].ret = "ctx"
                /\ eng[thr[t].id].status = "none"
                /\ gor[thr[t].id].kind = "none"
                /\ ~IsRunning(thr[t].box)
                /\ UNCHANGED <<box, eng, gor>>]_vars

\* C30 witness: StartContext on an Idle ProxyBox returned the context's error
\* from the select before box.New; no engine was constructed for the call and
\* the ProxyBox is Idle
C30_Witness ==
    \E t \in Threads :
        /\ thr[t].op = "StartContext"
        /\ thr[t].pc = "returned"
        /\ thr[t].ret = "ctx"
        /\ thr[t].site = "precheck"
        /\ thr[t].entry = NoEngine
        /\ eng[thr[t].id].status = "none"
        /\ gor[thr[t].id].kind = "none"
        /\ ~IsRunning(thr[t].box)

====
